---- MODULE Spec2Model ----
(***************************************************************************)
(* Term representation of dependent-c (ast.c) and its semantic operations: *)
(* structural equality, deep copy, free-variable analysis and substitution *)
(* over expressions, statements and blocks.                                *)
(*                                                                         *)
(* An Expr / Statement is a record carrying its tag and the payload of the *)
(* union member that the tag selects.  Arrays (param_types, param_names,   *)
(* args, ...) are sequences, indexed from 1 where the C code indexes from  *)
(* 0.  Interned symbols are positive integers (handle identity is integer  *)
(* equality); NULL is 0.                                                   *)
(***************************************************************************)
EXTENDS Integers, Sequences, FiniteSets, TLC

(***************************************************************************)
(* Bounds of the model.                                                    *)
(***************************************************************************)
\* number of interned source symbols; gensym'd symbols lie above it
NumSyms == 2
\* longest parameter / field / argument / statement list
MaxLen == 2
\* largest value the aliased read of func_type.num_params on a Lambda yields
MaxAliased == 3
\* longest text given to the lexer, in characters
MaxInput == 3

NULL == 0
Syms == 1..NumSyms

(***************************************************************************)
(* Constructors of the tagged unions (ast.h).                              *)
(***************************************************************************)
Lit(t) == [tag |-> "EXPR_LITERAL", literal |-> [tag |-> t]]
LitIntegral(n) ==
    [tag |-> "EXPR_LITERAL", literal |-> [tag |-> "LIT_INTEGRAL", integral |-> n]]
Ident(s) == [tag |-> "EXPR_IDENT", ident |-> s]
BinOp(o, a, b) == [tag |-> "EXPR_BIN_OP", op |-> o, expr1 |-> a, expr2 |-> b]
IfThenElse(p, t, e) ==
    [tag |-> "EXPR_IFTHENELSE", predicate |-> p, then_ |-> t, else_ |-> e]
FuncType(r, ts, ns) ==
    [tag |-> "EXPR_FUNC_TYPE", ret_type |-> r, param_types |-> ts, param_names |-> ns]
Lambda(ts, ns, b) ==
    [tag |-> "EXPR_LAMBDA", param_types |-> ts, param_names |-> ns, body |-> b]
Call(f, as) == [tag |-> "EXPR_CALL", func |-> f, args |-> as]
Struct(ts, ns) == [tag |-> "EXPR_STRUCT", field_types |-> ts, field_names |-> ns]
Union(ts, ns) == [tag |-> "EXPR_UNION", field_types |-> ts, field_names |-> ns]
Pack(t, ns, as) ==
    [tag |-> "EXPR_PACK", type |-> t, field_names |-> ns, assigns |-> as]
Member(r, f) == [tag |-> "EXPR_MEMBER", record |-> r, field |-> f]
Pointer(e) == [tag |-> "EXPR_POINTER", pointer |-> e]
Reference(e) == [tag |-> "EXPR_REFERENCE", pointer |-> e]
Dereference(e) == [tag |-> "EXPR_DEREFERENCE", pointer |-> e]
StatementExpr(s) == [tag |-> "EXPR_STATEMENT", statement |-> s]

StmtEmpty == [tag |-> "STATEMENT_EMPTY"]
StmtExpr(e) == [tag |-> "STATEMENT_EXPR", expr |-> e]
StmtReturn(e) == [tag |-> "STATEMENT_RETURN", expr |-> e]
StmtBlock(b) == [tag |-> "STATEMENT_BLOCK", block |-> b]
StmtDecl(t, n) ==
    [tag |-> "STATEMENT_DECL", type |-> t, name |-> n, is_initialized |-> FALSE]
StmtDeclInit(t, n, v) ==
    [tag |-> "STATEMENT_DECL", type |-> t, name |-> n, is_initialized |-> TRUE,
     initial_value |-> v]
StmtIfThenElse(cs, ts, e) ==
    [tag |-> "STATEMENT_IFTHENELSE", ifs |-> cs, thens |-> ts, else_ |-> e]

PointerTags == {"EXPR_POINTER", "EXPR_REFERENCE", "EXPR_DEREFERENCE"}

\* what a loop over an array adds up, given each element's share
RECURSIVE Sum(_)
Sum(shares) == IF shares = <<>> THEN 0 ELSE Head(shares) + Sum(Tail(shares))

(***************************************************************************)
(* Structural equality.                                                    *)
(***************************************************************************)
\* a comparison that only looks at y's tag when x carries an integer
literal_equal_lenient(x, y) ==
    IF x.tag = "LIT_INTEGRAL"
    THEN y.tag = "LIT_INTEGRAL" /\ x.integral = y.integral
    ELSE TRUE

literal_equal(x, y) ==
    IF x.tag # y.tag THEN FALSE
    ELSE IF x.tag = "LIT_INTEGRAL" THEN x.integral = y.integral
    ELSE IF x.tag = "LIT_BOOLEAN" THEN x.boolean = y.boolean
    ELSE TRUE

RECURSIVE expr_equal(_, _)
expr_equal(x, y) ==
    IF x.tag # y.tag THEN FALSE
    ELSE CASE x.tag = "EXPR_LITERAL" -> literal_equal(x.literal, y.literal)
      [] x.tag = "EXPR_IDENT" -> x.ident = y.ident
      [] x.tag = "EXPR_BIN_OP" ->
            /\ x.op # y.op
            /\ expr_equal(x.expr1, y.expr1)
            /\ expr_equal(x.expr2, y.expr2)
      [] x.tag = "EXPR_IFTHENELSE" ->
            /\ expr_equal(x.predicate, y.predicate)
            /\ expr_equal(x.then_, y.then_)
            /\ expr_equal(x.else_, y.else_)
      [] x.tag = "EXPR_FUNC_TYPE" ->
            IF \/ ~expr_equal(x.ret_type, y.ret_type)
               \/ Len(x.param_types) # Len(y.param_types)
            THEN FALSE
            ELSE \A i \in 1..Len(x.param_types) :
                    /\ expr_equal(x.param_types[i], y.param_types[i])
                    /\ x.param_names[i] = y.param_names[i]
      [] x.tag = "EXPR_LAMBDA" ->
            IF Len(x.param_types) # Len(y.param_types) THEN FALSE
            ELSE /\ \A i \in 1..Len(x.param_types) :
                       \* the loop compares *param_types, the first element
                       /\ expr_equal(x.param_types[1], y.param_types[1])
                       /\ x.param_names[i] = y.param_names[i]
                 /\ expr_equal(x.body, y.body)
      [] x.tag = "EXPR_CALL" ->
            IF \/ ~expr_equal(x.func, y.func)
               \/ Len(x.args) # Len(y.args)
            THEN FALSE
            ELSE \A i \in 1..Len(x.args) : expr_equal(x.args[i], y.args[i])
      [] x.tag \in {"EXPR_STRUCT", "EXPR_UNION"} ->
            IF Len(x.field_types) # Len(y.field_types) THEN FALSE
            ELSE \A i \in 1..Len(x.field_types) :
                    /\ expr_equal(x.field_types[i], y.field_types[i])
                    /\ x.field_names[i] = y.field_names[i]
      [] x.tag = "EXPR_PACK" ->
            IF \/ ~expr_equal(x.type, y.type)
               \/ Len(x.assigns) # Len(y.assigns)
            THEN FALSE
            ELSE \A i \in 1..Len(x.assigns) :
                    /\ x.field_names[i] = y.field_names[i]
                    /\ expr_equal(x.assigns[i], y.assigns[i])
      [] x.tag = "EXPR_MEMBER" ->
            expr_equal(x.record, y.record) /\ x.field = y.field
      [] x.tag \in PointerTags -> expr_equal(x.pointer, y.pointer)
      [] x.tag = "EXPR_STATEMENT" -> FALSE

(***************************************************************************)
(* Deep copy.  Every child is rebuilt node by node; symbols are shared.    *)
(***************************************************************************)
literal_copy(x) == x

RECURSIVE expr_copy(_)
RECURSIVE statement_copy(_)
RECURSIVE block_copy(_)
expr_copy(x) ==
    CASE x.tag = "EXPR_LITERAL" -> [tag |-> x.tag, literal |-> literal_copy(x.literal)]
      [] x.tag = "EXPR_IDENT" -> [tag |-> x.tag, ident |-> x.ident]
      [] x.tag = "EXPR_BIN_OP" ->
            [tag |-> x.tag, op |-> x.op,
             expr1 |-> expr_copy(x.expr1), expr2 |-> expr_copy(x.expr2)]
      [] x.tag = "EXPR_IFTHENELSE" ->
            [tag |-> x.tag, predicate |-> expr_copy(x.predicate),
             then_ |-> expr_copy(x.then_), else_ |-> expr_copy(x.else_)]
      [] x.tag = "EXPR_FUNC_TYPE" ->
            [tag |-> x.tag, ret_type |-> expr_copy(x.ret_type),
             param_types |-> [i \in 1..Len(x.param_types) |-> expr_copy(x.param_types[i])],
             param_names |-> [i \in 1..Len(x.param_types) |-> x.param_names[i]]]
      [] x.tag = "EXPR_LAMBDA" ->
            [tag |-> x.tag,
             param_types |-> [i \in 1..Len(x.param_types) |-> expr_copy(x.param_types[i])],
             param_names |-> [i \in 1..Len(x.param_types) |-> x.param_names[i]],
             body |-> expr_copy(x.body)]
      [] x.tag = "EXPR_CALL" ->
            [tag |-> x.tag, func |-> expr_copy(x.func),
             args |-> [i \in 1..Len(x.args) |-> expr_copy(x.args[i])]]
      [] x.tag \in {"EXPR_STRUCT", "EXPR_UNION"} ->
            [tag |-> x.tag,
             field_types |-> [i \in 1..Len(x.field_types) |-> expr_copy(x.field_types[i])],
             field_names |-> [i \in 1..Len(x.field_types) |-> x.field_names[i]]]
      [] x.tag = "EXPR_PACK" ->
            [tag |-> x.tag, type |-> expr_copy(x.type),
             field_names |-> [i \in 1..Len(x.assigns) |-> x.field_names[i]],
             assigns |-> [i \in 1..Len(x.assigns) |-> expr_copy(x.assigns[i])]]
      [] x.tag = "EXPR_MEMBER" ->
            [tag |-> x.tag, record |-> expr_copy(x.record), field |-> x.field]
      [] x.tag \in PointerTags -> [tag |-> x.tag, pointer |-> expr_copy(x.pointer)]
      [] x.tag = "EXPR_STATEMENT" ->
            [tag |-> x.tag, statement |-> statement_copy(x.statement)]

statement_copy(s) ==
    CASE s.tag = "STATEMENT_EMPTY" -> [tag |-> s.tag]
      [] s.tag \in {"STATEMENT_EXPR", "STATEMENT_RETURN"} ->
            [tag |-> s.tag, expr |-> expr_copy(s.expr)]
      [] s.tag = "STATEMENT_BLOCK" -> [tag |-> s.tag, block |-> block_copy(s.block)]
      [] s.tag = "STATEMENT_DECL" ->
            IF s.is_initialized
            THEN [tag |-> s.tag, type |-> expr_copy(s.type), name |-> s.name,
                  is_initialized |-> TRUE, initial_value |-> expr_copy(s.initial_value)]
            ELSE [tag |-> s.tag, type |-> expr_copy(s.type), name |-> s.name,
                  is_initialized |-> FALSE]
      [] s.tag = "STATEMENT_IFTHENELSE" ->
            [tag |-> s.tag,
             ifs |-> [i \in 1..Len(s.ifs) |-> expr_copy(s.ifs[i])],
             thens |-> [i \in 1..Len(s.ifs) |-> block_copy(s.thens[i])],
             else_ |-> block_copy(s.else_)]

\* a copy loop that stops one statement short
block_copy_truncated(b) == [i \in 1..(Len(b) - 1) |-> statement_copy(b[i])]

block_copy(b) == [i \in 1..Len(b) |-> statement_copy(b[i])]

(***************************************************************************)
(* Storage of the copy.  A path is the sequence of field names and indices *)
(* that leads from a node to a child slot or payload array.  The set       *)
(* returned holds the paths whose storage in the copy is the very storage  *)
(* of the source: a slot filled through alloc / alloc_array is the copy's  *)
(* own storage and contributes only what is shared below it.               *)
(***************************************************************************)
Below(key, paths) == {<<key>> \o q : q \in paths}
BelowEach(key, paths) ==
    UNION {Below(key, Below(i, paths[i])) : i \in 1..Len(paths)}

RECURSIVE expr_copy_shared(_)
RECURSIVE statement_copy_shared(_)
RECURSIVE block_copy_shared(_)
\* a shallow copy of the pointed-to node: y.pointer = x->pointer
expr_copy_shared_shallow(x) ==
    IF x.tag \in PointerTags THEN {<<"pointer">>} ELSE {}

expr_copy_shared(x) ==
    LET types == [i \in 1..Len(x.param_types) |->
                    expr_copy_shared(x.param_types[i])]
        args == [i \in 1..Len(x.args) |->
                    expr_copy_shared(x.args[i])]
        fields == [i \in 1..Len(x.field_types) |->
                    expr_copy_shared(x.field_types[i])]
        assigns == [i \in 1..Len(x.assigns) |->
                    expr_copy_shared(x.assigns[i])]
    IN CASE x.tag \in {"EXPR_LITERAL", "EXPR_IDENT"} -> {}
         [] x.tag = "EXPR_BIN_OP" ->
               Below("expr1", expr_copy_shared(x.expr1))
                   \cup Below("expr2", expr_copy_shared(x.expr2))
         [] x.tag = "EXPR_IFTHENELSE" ->
               Below("predicate", expr_copy_shared(x.predicate))
                   \cup Below("then_", expr_copy_shared(x.then_))
                   \cup Below("else_", expr_copy_shared(x.else_))
         [] x.tag = "EXPR_FUNC_TYPE" ->
               Below("ret_type", expr_copy_shared(x.ret_type))
                   \cup BelowEach("param_types", types)
         [] x.tag = "EXPR_LAMBDA" ->
               BelowEach("param_types", types)
                   \cup Below("body", expr_copy_shared(x.body))
         [] x.tag = "EXPR_CALL" ->
               Below("func", expr_copy_shared(x.func))
                   \cup BelowEach("args", args)
         [] x.tag \in {"EXPR_STRUCT", "EXPR_UNION"} ->
               BelowEach("field_types", fields)
         [] x.tag = "EXPR_PACK" ->
               Below("type", expr_copy_shared(x.type))
                   \cup BelowEach("assigns", assigns)
         [] x.tag = "EXPR_MEMBER" -> Below("record", expr_copy_shared(x.record))
         [] x.tag \in PointerTags -> Below("pointer", expr_copy_shared(x.pointer))
         [] x.tag = "EXPR_STATEMENT" ->
               Below("statement", statement_copy_shared(x.statement))

statement_copy_shared(s) ==
    LET ifs == [i \in 1..Len(s.ifs) |->
                    expr_copy_shared(s.ifs[i])]
        thens == [i \in 1..Len(s.thens) |->
                    block_copy_shared(s.thens[i])]
    IN CASE s.tag = "STATEMENT_EMPTY" -> {}
         [] s.tag \in {"STATEMENT_EXPR", "STATEMENT_RETURN"} ->
               Below("expr", expr_copy_shared(s.expr))
         [] s.tag = "STATEMENT_BLOCK" -> Below("block", block_copy_shared(s.block))
         [] s.tag = "STATEMENT_DECL" ->
               Below("type", expr_copy_shared(s.type))
                   \cup (IF s.is_initialized
                         THEN Below("initial_value", expr_copy_shared(s.initial_value))
                         ELSE {})
         [] s.tag = "STATEMENT_IFTHENELSE" ->
               BelowEach("ifs", ifs)
                   \cup BelowEach("thens", thens)
                   \cup Below("else_", block_copy_shared(s.else_))

block_copy_shared(b) ==
    UNION {Below(i, statement_copy_shared(b[i])) : i \in 1..Len(b)}

\* the subtree of t at path p, and t with v put at path p
RECURSIVE Subtree(_, _)
Subtree(t, p) == IF p = <<>> THEN t ELSE Subtree(t[Head(p)], Tail(p))

RECURSIVE Graft(_, _, _)
Graft(t, p, v) ==
    IF p = <<>> THEN v ELSE [t EXCEPT ![Head(p)] = Graft(t[Head(p)], Tail(p), v)]

\* what a tree reads as after the other tree, with which it shares the
\* storage at paths, has been written to
RECURSIVE WriteThrough(_, _, _)
WriteThrough(t, written, paths) ==
    IF paths = {} THEN t
    ELSE LET p == CHOOSE q \in paths : \A r \in paths : Len(q) >= Len(r)
         IN WriteThrough(Graft(t, p, Subtree(written, p)), written, paths \ {p})

(***************************************************************************)
(* Free variables.  A SymbolSet is a set of symbols; symbol_set_add,       *)
(* symbol_set_delete and symbol_set_union are \cup {s}, \ {s} and \cup.    *)
(***************************************************************************)
\* an analysis in which no earlier name is deleted
NamesBefore_kept(ns, k) == {}

\* the names among ns[1..k] (deleting NULL from a set has no effect)
NamesBefore(ns, k) == {ns[j] : j \in 1..k}

\* an analysis in which a parameter also binds in its own type
PresentNamesBefore_and_own(ns, k) ==
    {ns[j] : j \in {m \in 1..(k + 1) : m <= Len(ns) /\ ns[m] # NULL}}

\* the names deleted by the loops over j < k that skip an absent name
PresentNamesBefore(ns, k) == {ns[j] : j \in {m \in 1..k : ns[m] # NULL}}

RECURSIVE expr_free_vars(_)
RECURSIVE statement_free_vars(_)
RECURSIVE block_free_vars(_)
RECURSIVE block_free_vars_loop(_, _, _)
RECURSIVE statement_ifthenelse_free_vars_loop(_, _, _)
expr_free_vars(expr) ==
    CASE expr.tag = "EXPR_LITERAL" -> {}
      [] expr.tag = "EXPR_IDENT" -> {expr.ident}
      [] expr.tag = "EXPR_BIN_OP" ->
            expr_free_vars(expr.expr1) \cup expr_free_vars(expr.expr2)
      [] expr.tag = "EXPR_IFTHENELSE" ->
            expr_free_vars(expr.predicate) \cup expr_free_vars(expr.then_)
                \cup expr_free_vars(expr.else_)
      [] expr.tag = "EXPR_FUNC_TYPE" ->
            (expr_free_vars(expr.ret_type)
                \ PresentNamesBefore(expr.param_names, Len(expr.param_names)))
            \cup UNION {expr_free_vars(expr.param_types[i])
                            \ PresentNamesBefore(expr.param_names, i - 1)
                        : i \in 1..Len(expr.param_types)}
      [] expr.tag = "EXPR_LAMBDA" ->
            (expr_free_vars(expr.body) \ NamesBefore(expr.param_names, Len(expr.param_names)))
            \cup UNION {expr_free_vars(expr.param_types[i])
                            \ NamesBefore(expr.param_names, i - 1)
                        : i \in 1..Len(expr.param_types)}
      [] expr.tag = "EXPR_CALL" ->
            expr_free_vars(expr.func)
                \cup UNION {expr_free_vars(expr.args[i]) : i \in 1..Len(expr.args)}
      [] expr.tag = "EXPR_STRUCT" ->
            UNION {expr_free_vars(expr.field_types[i])
                        \ NamesBefore(expr.field_names, i - 1)
                   : i \in 1..Len(expr.field_types)}
      [] expr.tag = "EXPR_UNION" ->
            UNION {expr_free_vars(expr.field_types[i]) : i \in 1..Len(expr.field_types)}
      [] expr.tag = "EXPR_PACK" ->
            expr_free_vars(expr.type)
                \cup UNION {expr_free_vars(expr.assigns[i]) : i \in 1..Len(expr.assigns)}
      [] expr.tag = "EXPR_MEMBER" -> expr_free_vars(expr.record)
      [] expr.tag \in PointerTags -> expr_free_vars(expr.pointer)
      [] expr.tag = "EXPR_STATEMENT" -> statement_free_vars(expr.statement)

\* for (i = 0; i < num_ifs; i++): free_vars_temp := fv(ifs[i]); union;
\* free_vars := fv(thens[i]) (overwritten); union with free_vars_temp again
statement_ifthenelse_free_vars_loop(statement, free_vars, i) ==
    IF i > Len(statement.ifs) THEN free_vars
    ELSE statement_ifthenelse_free_vars_loop(statement,
            block_free_vars(statement.thens[i]) \cup expr_free_vars(statement.ifs[i]),
            i + 1)

statement_free_vars(statement) ==
    CASE statement.tag = "STATEMENT_EMPTY" -> {}
      [] statement.tag \in {"STATEMENT_EXPR", "STATEMENT_RETURN"} ->
            expr_free_vars(statement.expr)
      [] statement.tag = "STATEMENT_BLOCK" -> block_free_vars(statement.block)
      [] statement.tag = "STATEMENT_DECL" ->
            IF statement.is_initialized
            THEN expr_free_vars(statement.type) \cup expr_free_vars(statement.initial_value)
            ELSE expr_free_vars(statement.type)
      [] statement.tag = "STATEMENT_IFTHENELSE" ->
            statement_ifthenelse_free_vars_loop(statement,
                block_free_vars(statement.else_), 1)

\* a fold in which a Decl is deleted after its own free variables are added
block_free_vars_loop_binding_self(block, free_vars, i) ==
    IF i >= Len(block) THEN free_vars
    ELSE LET statement == block[Len(block) - i]
             united == free_vars \cup statement_free_vars(statement)
         IN block_free_vars_loop(block,
                IF statement.tag = "STATEMENT_DECL"
                THEN united \ {statement.name}
                ELSE united, i + 1)

\* i counts the statements already folded, from the last one backwards
block_free_vars_loop(block, free_vars, i) ==
    IF i >= Len(block) THEN free_vars
    ELSE LET statement == block[Len(block) - i]
             deleted == IF statement.tag = "STATEMENT_DECL"
                        THEN free_vars \ {statement.name}
                        ELSE free_vars
         IN block_free_vars_loop(block,
                deleted \cup statement_free_vars(statement), i + 1)

block_free_vars(block) == block_free_vars_loop(block, {}, 0)

(***************************************************************************)
(* Symbol sets held.  Every call of the three functions above acquires the *)
(* set it hands back through *free_vars; the operators below count the     *)
(* other sets a call acquires and has not released when it returns.  A set *)
(* is lost when the variable holding it is assigned anew or goes out of    *)
(* scope.  symbol_set_union(dst, src) either releases src or leaves that   *)
(* to its caller; `kept` is the number of sets one union leaves live in    *)
(* free_vars_temp, 0 or 1.                                                 *)
(***************************************************************************)
RECURSIVE expr_free_vars_leaked(_, _)
RECURSIVE statement_free_vars_leaked(_, _)
RECURSIVE block_free_vars_leaked(_, _)
expr_free_vars_leaked(expr, kept) ==
    LET types == [i \in 1..Len(expr.param_types) |->
                    expr_free_vars_leaked(expr.param_types[i], kept) + kept]
        args == [i \in 1..Len(expr.args) |->
                    expr_free_vars_leaked(expr.args[i], kept) + kept]
        fields == [i \in 1..Len(expr.field_types) |->
                    expr_free_vars_leaked(expr.field_types[i], kept) + kept]
        assigns == [i \in 1..Len(expr.assigns) |->
                    expr_free_vars_leaked(expr.assigns[i], kept) + kept]
    IN CASE expr.tag \in {"EXPR_LITERAL", "EXPR_IDENT"} -> 0
         [] expr.tag = "EXPR_BIN_OP" ->
               expr_free_vars_leaked(expr.expr1, kept)
                   + expr_free_vars_leaked(expr.expr2, kept) + kept
         [] expr.tag = "EXPR_IFTHENELSE" ->
               expr_free_vars_leaked(expr.predicate, kept)
                   + expr_free_vars_leaked(expr.then_, kept) + kept
                   + expr_free_vars_leaked(expr.else_, kept) + kept
         [] expr.tag = "EXPR_FUNC_TYPE" ->
               expr_free_vars_leaked(expr.ret_type, kept)
                   + Sum(types)
         [] expr.tag = "EXPR_LAMBDA" ->
               expr_free_vars_leaked(expr.body, kept)
                   + Sum(types)
         [] expr.tag = "EXPR_CALL" ->
               expr_free_vars_leaked(expr.func, kept) + Sum(args)
         [] expr.tag \in {"EXPR_STRUCT", "EXPR_UNION"} ->
               Sum(fields)
         [] expr.tag = "EXPR_PACK" ->
               expr_free_vars_leaked(expr.type, kept) + Sum(assigns)
         [] expr.tag = "EXPR_MEMBER" -> expr_free_vars_leaked(expr.record, kept)
         [] expr.tag \in PointerTags -> expr_free_vars_leaked(expr.pointer, kept)
         [] expr.tag = "EXPR_STATEMENT" ->
               statement_free_vars_leaked(expr.statement, kept)

statement_free_vars_leaked(statement, kept) ==
    \* one turn of the if/else loop: free_vars_temp is acquired and unioned,
    \* block_free_vars assigns *free_vars anew over the set accumulated so
    \* far (one set lost), free_vars_temp is unioned a second time
    LET ifs == [i \in 1..Len(statement.ifs) |->
                    expr_free_vars_leaked(statement.ifs[i], kept)
                    + 1 + block_free_vars_leaked(statement.thens[i], kept)
                    + kept]
    IN CASE statement.tag = "STATEMENT_EMPTY" -> 0
         [] statement.tag \in {"STATEMENT_EXPR", "STATEMENT_RETURN"} ->
               expr_free_vars_leaked(statement.expr, kept)
         [] statement.tag = "STATEMENT_BLOCK" ->
               block_free_vars_leaked(statement.block, kept)
         [] statement.tag = "STATEMENT_DECL" ->
               expr_free_vars_leaked(statement.type, kept)
                   + (IF statement.is_initialized
                      THEN expr_free_vars_leaked(statement.initial_value, kept) + kept
                      ELSE 0)
         [] statement.tag = "STATEMENT_IFTHENELSE" ->
               block_free_vars_leaked(statement.else_, kept)
                   + Sum(ifs)

block_free_vars_leaked(block, kept) ==
    LET statements == [i \in 1..Len(block) |->
                    statement_free_vars_leaked(block[i], kept) + kept]
    IN Sum(statements)

(***************************************************************************)
(* Substitution.  The C functions mutate *expr in place and return a bool; *)
(* here every function returns [ok, e, ctx]: the return value, the node as *)
(* the call leaves it, and the context as the call leaves it.              *)
(*                                                                         *)
(* ctx.gensyms   number of symbols symbol_gensym has handed out            *)
(* ctx.calls     number of expr_subst / statement_subst / block_subst      *)
(*               calls entered so far                                      *)
(* ctx.failed_at value of ctx.calls when a call first returned false       *)
(*               (0: none has)                                             *)
(* ctx.aliased   what reading func_type.num_params yields on a Lambda node *)
(* ctx.memory    the caller's replacement object, as the call leaves it    *)
(*               (the variable replacement keeps what it was at the call)  *)
(***************************************************************************)
Ret(ok, e, ctx) == [ok |-> ok, e |-> e, ctx |-> ctx]

\* symbol_gensym(&context->interns, base): a symbol never handed out before
symbol_gensym(ctx, base) == NumSyms + ctx.gensyms + 1

Enter(ctx) == [ctx EXCEPT !.calls = @ + 1]
Leave(r) ==
    IF ~r.ok /\ r.ctx.failed_at = 0
    THEN [r EXCEPT !.ctx.failed_at = r.ctx.calls]
    ELSE r

RECURSIVE expr_subst(_, _, _, _)
RECURSIVE statement_subst(_, _, _, _)
RECURSIVE block_subst(_, _, _, _)
RECURSIVE block_subst_loop(_, _, _, _, _)
RECURSIVE subst_each(_, _, _, _, _)
RECURSIVE func_type_rename_loop(_, _, _, _, _, _)
RECURSIVE func_type_subst_loop(_, _, _, _, _, _)
RECURSIVE lambda_rename_loop(_, _, _, _, _, _)
RECURSIVE lambda_subst_loop(_, _, _, _, _, _)
RECURSIVE struct_subst_loop(_, _, _, _, _, _)
RECURSIVE pack_subst_loop(_, _, _, _, _, _)
RECURSIVE statement_ifthenelse_subst_loop(_, _, _, _, _)

\* for (j = i + 1; j < num_params; j++) expr_subst(&param_types[i], old, new)
func_type_rename_loop(ctx, expr, i, j, old_param_name, new_replacement) ==
    IF j > Len(expr.param_types) THEN Ret(TRUE, expr, ctx)
    ELSE LET r == expr_subst(ctx, expr.param_types[i], old_param_name, new_replacement)
             e1 == [expr EXCEPT !.param_types[i] = r.e]
         IN IF ~r.ok THEN Ret(FALSE, e1, r.ctx)
            ELSE func_type_rename_loop(r.ctx, e1, i, j + 1,
                                       old_param_name, new_replacement)

func_type_subst_loop(ctx, expr, name, replacement, free_vars, i) ==
    IF i > Len(expr.param_types)
    THEN LET r == expr_subst(ctx, expr.ret_type, name, replacement)
         IN Ret(r.ok, [expr EXCEPT !.ret_type = r.e], r.ctx)
    ELSE LET r == expr_subst(ctx, expr.param_types[i], name, replacement)
             e1 == [expr EXCEPT !.param_types[i] = r.e]
             old_param_name == expr.param_names[i]
         IN IF ~r.ok THEN Ret(FALSE, e1, r.ctx)
            ELSE IF old_param_name = NULL
            THEN func_type_subst_loop(r.ctx, e1, name, replacement, free_vars, i + 1)
            ELSE IF old_param_name = name THEN Ret(TRUE, e1, r.ctx)
            ELSE IF old_param_name \in free_vars
            THEN LET new_param_name == symbol_gensym(r.ctx, old_param_name)
                     new_replacement == Ident(new_param_name)
                     c2 == [r.ctx EXCEPT !.gensyms = @ + 1]
                     e2 == [e1 EXCEPT !.param_names[i] = new_param_name]
                     r2 == func_type_rename_loop(c2, e2, i, i + 1,
                                                 old_param_name, new_replacement)
                 IN IF ~r2.ok THEN r2
                    ELSE LET r3 == expr_subst(r2.ctx, r2.e.ret_type,
                                              old_param_name, new_replacement)
                             e3 == [r2.e EXCEPT !.ret_type = r3.e]
                         IN IF ~r3.ok THEN Ret(FALSE, e3, r3.ctx)
                            ELSE func_type_subst_loop(r3.ctx, e3, name, replacement,
                                                      free_vars, i + 1)
            ELSE func_type_subst_loop(r.ctx, e1, name, replacement, free_vars, i + 1)

expr_func_type_subst(ctx, expr, name, replacement) ==
    func_type_subst_loop(ctx, expr, name, replacement, expr_free_vars(replacement), 1)

\* for (j = i + 1; j < expr->func_type.num_params; j++): the bound is read
\* through the func_type member of a node whose active member is lambda
lambda_rename_loop(ctx, expr, i, j, old_param_name, new_replacement) ==
    IF j > ctx.aliased THEN Ret(TRUE, expr, ctx)
    ELSE LET r == expr_subst(ctx, expr.param_types[i], old_param_name, new_replacement)
             e1 == [expr EXCEPT !.param_types[i] = r.e]
         IN IF ~r.ok THEN Ret(FALSE, e1, r.ctx)
            ELSE lambda_rename_loop(r.ctx, e1, i, j + 1,
                                    old_param_name, new_replacement)

\* lambda_subst_loop without the early return on a parameter named name
lambda_subst_loop_no_shadowing(ctx, expr, name, replacement, free_vars, i) ==
    IF i > Len(expr.param_types)
    THEN LET r == expr_subst(ctx, expr.body, name, replacement)
         IN Ret(r.ok, [expr EXCEPT !.body = r.e], r.ctx)
    ELSE LET r == expr_subst(ctx, expr.param_types[i], name, replacement)
             e1 == [expr EXCEPT !.param_types[i] = r.e]
         IN IF ~r.ok THEN Ret(FALSE, e1, r.ctx)
            ELSE lambda_subst_loop(r.ctx, e1, name, replacement, free_vars, i + 1)

lambda_subst_loop(ctx, expr, name, replacement, free_vars, i) ==
    IF i > Len(expr.param_types)
    THEN LET r == expr_subst(ctx, expr.body, name, replacement)
         IN Ret(r.ok, [expr EXCEPT !.body = r.e], r.ctx)
    ELSE LET r == expr_subst(ctx, expr.param_types[i], name, replacement)
             e1 == [expr EXCEPT !.param_types[i] = r.e]
             old_param_name == expr.param_names[i]
         IN IF ~r.ok THEN Ret(FALSE, e1, r.ctx)
            ELSE IF old_param_name = name THEN Ret(TRUE, e1, r.ctx)
            ELSE IF old_param_name \in free_vars
            THEN LET new_param_name == symbol_gensym(r.ctx, old_param_name)
                     new_replacement == Ident(new_param_name)
                     c2 == [r.ctx EXCEPT !.gensyms = @ + 1]
                     e2 == [e1 EXCEPT !.param_names[i] = new_param_name]
                     r2 == lambda_rename_loop(c2, e2, i, i + 1,
                                              old_param_name, new_replacement)
                 IN IF ~r2.ok THEN r2
                    ELSE LET r3 == expr_subst(r2.ctx, r2.e.body,
                                              old_param_name, new_replacement)
                             e3 == [r2.e EXCEPT !.body = r3.e]
                         IN IF ~r3.ok THEN Ret(FALSE, e3, r3.ctx)
                            ELSE lambda_subst_loop(r3.ctx, e3, name, replacement,
                                                   free_vars, i + 1)
            ELSE lambda_subst_loop(r.ctx, e1, name, replacement, free_vars, i + 1)

\* a lambda case that takes no parameter name for capturing
expr_lambda_subst_capturing(ctx, expr, name, replacement) ==
    lambda_subst_loop(ctx, expr, name, replacement, {}, 1)

expr_lambda_subst(ctx, expr, name, replacement) ==
    lambda_subst_loop(ctx, expr, name, replacement, expr_free_vars(replacement), 1)

\* struct_subst_loop renaming a capturing field, as the parameter loops do,
\* where the code gives up
struct_subst_loop_renaming(ctx, expr, name, replacement, free_vars, i) ==
    IF i > Len(expr.field_types) THEN Ret(TRUE, expr, ctx)
    ELSE LET r == expr_subst(ctx, expr.field_types[i], name, replacement)
             e1 == [expr EXCEPT !.field_types[i] = r.e]
             old_field_name == expr.field_names[i]
         IN IF ~r.ok THEN Ret(FALSE, e1, r.ctx)
            ELSE IF old_field_name = name THEN Ret(TRUE, e1, r.ctx)
            ELSE IF old_field_name \in free_vars
            THEN struct_subst_loop([r.ctx EXCEPT !.gensyms = @ + 1],
                    [e1 EXCEPT !.field_names[i] = symbol_gensym(r.ctx, old_field_name)],
                    name, replacement, free_vars, i + 1)
            ELSE struct_subst_loop(r.ctx, e1, name, replacement, free_vars, i + 1)

struct_subst_loop(ctx, expr, name, replacement, free_vars, i) ==
    IF i > Len(expr.field_types) THEN Ret(TRUE, expr, ctx)
    ELSE LET r == expr_subst(ctx, expr.field_types[i], name, replacement)
             e1 == [expr EXCEPT !.field_types[i] = r.e]
             old_field_name == expr.field_names[i]
         IN IF ~r.ok THEN Ret(FALSE, e1, r.ctx)
            ELSE IF old_field_name = name THEN Ret(TRUE, e1, r.ctx)
            ELSE IF old_field_name \in free_vars THEN Ret(FALSE, e1, r.ctx)
            ELSE struct_subst_loop(r.ctx, e1, name, replacement, free_vars, i + 1)

expr_struct_subst(ctx, expr, name, replacement) ==
    struct_subst_loop(ctx, expr, name, replacement, expr_free_vars(replacement), 1)

pack_subst_loop(ctx, expr, name, replacement, free_vars, i) ==
    IF i > Len(expr.assigns) THEN Ret(TRUE, expr, ctx)
    ELSE LET r == expr_subst(ctx, expr.assigns[i], name, replacement)
             e1 == [expr EXCEPT !.assigns[i] = r.e]
             old_field_name == expr.field_names[i]
         IN IF ~r.ok THEN Ret(FALSE, e1, r.ctx)
            ELSE IF old_field_name = name THEN Ret(TRUE, e1, r.ctx)
            ELSE IF old_field_name \in free_vars THEN Ret(FALSE, e1, r.ctx)
            ELSE pack_subst_loop(r.ctx, e1, name, replacement, free_vars, i + 1)

expr_pack_subst(ctx, expr, name, replacement) ==
    pack_subst_loop(ctx, expr, name, replacement, expr_free_vars(replacement), 1)

\* for (i = 0; i < n; i++) if (!expr_subst(&array[i], ...)) return false;
\* the loop of the EXPR_CALL arguments and of the EXPR_UNION field types
subst_each(ctx, array, name, replacement, i) ==
    IF i > Len(array) THEN Ret(TRUE, array, ctx)
    ELSE LET r == expr_subst(ctx, array[i], name, replacement)
             a1 == [array EXCEPT ![i] = r.e]
         IN IF ~r.ok THEN Ret(FALSE, a1, r.ctx)
            ELSE subst_each(r.ctx, a1, name, replacement, i + 1)

\* the EXPR_IDENT case taking over the replacement node instead of copying
\* it: *expr = *replacement, and the replacement is left zeroed
expr_ident_subst_moving(ctx, expr, name, replacement) ==
    Ret(TRUE, replacement, [ctx EXCEPT !.memory = Lit("LIT_TYPE")])

\* case EXPR_IDENT: expr_free(expr); *expr = expr_copy(replacement);
expr_ident_subst(ctx, expr, name, replacement) ==
    Ret(TRUE, expr_copy(replacement), ctx)

\* the EXPR_BIN_OP case with & in place of &&: both operands are visited
expr_bin_op_subst_eager(ctx, expr, name, replacement) ==
    LET r1 == expr_subst(ctx, expr.expr1, name, replacement)
        r2 == expr_subst(r1.ctx, expr.expr2, name, replacement)
    IN Ret(r1.ok /\ r2.ok, [expr EXCEPT !.expr1 = r1.e, !.expr2 = r2.e], r2.ctx)

expr_bin_op_subst(ctx, expr, name, replacement) ==
    LET r1 == expr_subst(ctx, expr.expr1, name, replacement)
        e1 == [expr EXCEPT !.expr1 = r1.e]
    IN IF ~r1.ok THEN Ret(FALSE, e1, r1.ctx)
       ELSE LET r2 == expr_subst(r1.ctx, expr.expr2, name, replacement)
            IN Ret(r2.ok, [e1 EXCEPT !.expr2 = r2.e], r2.ctx)

\* the EXPR_IFTHENELSE case going through the predicate once more after it
\* has substituted into it, copies of the replacement included
expr_ifthenelse_subst_retraversing(ctx, expr, name, replacement) ==
    LET r0 == expr_subst(ctx, expr.predicate, name, replacement)
        r1 == expr_subst(r0.ctx, r0.e, name, replacement)
        e1 == [expr EXCEPT !.predicate = r1.e]
    IN IF ~(r0.ok /\ r1.ok) THEN Ret(FALSE, e1, r1.ctx)
       ELSE LET r2 == expr_subst(r1.ctx, expr.then_, name, replacement)
                e2 == [e1 EXCEPT !.then_ = r2.e]
            IN IF ~r2.ok THEN Ret(FALSE, e2, r2.ctx)
               ELSE LET r3 == expr_subst(r2.ctx, expr.else_, name, replacement)
                    IN Ret(r3.ok, [e2 EXCEPT !.else_ = r3.e], r3.ctx)

expr_ifthenelse_subst(ctx, expr, name, replacement) ==
    LET r1 == expr_subst(ctx, expr.predicate, name, replacement)
        e1 == [expr EXCEPT !.predicate = r1.e]
    IN IF ~r1.ok THEN Ret(FALSE, e1, r1.ctx)
       ELSE LET r2 == expr_subst(r1.ctx, expr.then_, name, replacement)
                e2 == [e1 EXCEPT !.then_ = r2.e]
            IN IF ~r2.ok THEN Ret(FALSE, e2, r2.ctx)
               ELSE LET r3 == expr_subst(r2.ctx, expr.else_, name, replacement)
                    IN Ret(r3.ok, [e2 EXCEPT !.else_ = r3.e], r3.ctx)

expr_call_subst(ctx, expr, name, replacement) ==
    LET r1 == expr_subst(ctx, expr.func, name, replacement)
        e1 == [expr EXCEPT !.func = r1.e]
    IN IF ~r1.ok THEN Ret(FALSE, e1, r1.ctx)
       ELSE LET r2 == subst_each(r1.ctx, expr.args, name, replacement, 1)
            IN Ret(r2.ok, [e1 EXCEPT !.args = r2.e], r2.ctx)

expr_union_subst(ctx, expr, name, replacement) ==
    LET r == subst_each(ctx, expr.field_types, name, replacement, 1)
    IN Ret(r.ok, [expr EXCEPT !.field_types = r.e], r.ctx)

expr_subst(context, expr, name, replacement) ==
    LET ctx == Enter(context) IN
    Leave(
    CASE expr.tag = "EXPR_LITERAL" -> Ret(TRUE, expr, ctx)
      [] expr.tag = "EXPR_IDENT" -> expr_ident_subst(ctx, expr, name, replacement)
      [] expr.tag = "EXPR_BIN_OP" -> expr_bin_op_subst(ctx, expr, name, replacement)
      [] expr.tag = "EXPR_IFTHENELSE" ->
            expr_ifthenelse_subst(ctx, expr, name, replacement)
      [] expr.tag = "EXPR_FUNC_TYPE" ->
            expr_func_type_subst(ctx, expr, name, replacement)
      [] expr.tag = "EXPR_LAMBDA" -> expr_lambda_subst(ctx, expr, name, replacement)
      [] expr.tag = "EXPR_CALL" -> expr_call_subst(ctx, expr, name, replacement)
      [] expr.tag = "EXPR_STRUCT" -> expr_struct_subst(ctx, expr, name, replacement)
      [] expr.tag = "EXPR_UNION" -> expr_union_subst(ctx, expr, name, replacement)
      [] expr.tag = "EXPR_PACK" -> expr_pack_subst(ctx, expr, name, replacement)
      [] expr.tag = "EXPR_MEMBER" ->
            LET r == expr_subst(ctx, expr.record, name, replacement)
            IN Ret(r.ok, [expr EXCEPT !.record = r.e], r.ctx)
      [] expr.tag \in PointerTags ->
            LET r == expr_subst(ctx, expr.pointer, name, replacement)
            IN Ret(r.ok, [expr EXCEPT !.pointer = r.e], r.ctx)
      [] expr.tag = "EXPR_STATEMENT" ->
            LET r == statement_subst(ctx, expr.statement, name, replacement)
            IN Ret(r.ok, [expr EXCEPT !.statement = r.e], r.ctx))

statement_ifthenelse_subst_loop(ctx, statement, name, replacement, i) ==
    IF i > Len(statement.ifs)
    THEN LET r == block_subst(ctx, statement.else_, name, replacement)
         IN Ret(r.ok, [statement EXCEPT !.else_ = r.e], r.ctx)
    ELSE LET r1 == expr_subst(ctx, statement.ifs[i], name, replacement)
             s1 == [statement EXCEPT !.ifs[i] = r1.e]
         IN IF ~r1.ok THEN Ret(FALSE, s1, r1.ctx)
            ELSE LET r2 == block_subst(r1.ctx, statement.thens[i], name, replacement)
                     s2 == [s1 EXCEPT !.thens[i] = r2.e]
                 IN IF ~r2.ok THEN Ret(FALSE, s2, r2.ctx)
                    ELSE statement_ifthenelse_subst_loop(r2.ctx, s2, name,
                                                         replacement, i + 1)

statement_decl_subst(ctx, statement, name, replacement) ==
    LET r1 == expr_subst(ctx, statement.type, name, replacement)
        s1 == [statement EXCEPT !.type = r1.e]
    IN IF ~r1.ok THEN Ret(FALSE, s1, r1.ctx)
       ELSE IF statement.is_initialized
       THEN LET r2 == expr_subst(r1.ctx, statement.initial_value, name, replacement)
            IN Ret(r2.ok, [s1 EXCEPT !.initial_value = r2.e], r2.ctx)
       ELSE Ret(TRUE, s1, r1.ctx)

statement_subst(context, statement, name, replacement) ==
    LET ctx == Enter(context) IN
    Leave(
    CASE statement.tag = "STATEMENT_EMPTY" -> Ret(TRUE, statement, ctx)
      [] statement.tag \in {"STATEMENT_EXPR", "STATEMENT_RETURN"} ->
            LET r == expr_subst(ctx, statement.expr, name, replacement)
            IN Ret(r.ok, [statement EXCEPT !.expr = r.e], r.ctx)
      [] statement.tag = "STATEMENT_BLOCK" ->
            LET r == block_subst(ctx, statement.block, name, replacement)
            IN Ret(r.ok, [statement EXCEPT !.block = r.e], r.ctx)
      [] statement.tag = "STATEMENT_DECL" ->
            statement_decl_subst(ctx, statement, name, replacement)
      [] statement.tag = "STATEMENT_IFTHENELSE" ->
            statement_ifthenelse_subst_loop(ctx, statement, name, replacement, 1))

block_subst_loop(ctx, block, name, replacement, i) ==
    IF i > Len(block) THEN Ret(TRUE, block, ctx)
    ELSE LET r == statement_subst(ctx, block[i], name, replacement)
             b1 == [block EXCEPT ![i] = r.e]
         IN IF ~r.ok THEN Ret(FALSE, b1, r.ctx)
            ELSE block_subst_loop(r.ctx, b1, name, replacement, i + 1)

block_subst(context, block, name, replacement) ==
    Leave(block_subst_loop(Enter(context), block, name, replacement, 1))

(***************************************************************************)
(* Deallocation.  Each operator returns the node as the call leaves it and *)
(* the number of blocks it handed to dealloc.  A payload array is a block  *)
(* when it is not empty: the parser leaves the array of an empty list NULL *)
(* and dealloc(NULL) releases nothing.                                     *)
(***************************************************************************)
TopLevelFunc(n, r, ts, ns, b) ==
    [tag |-> "TOP_LEVEL_FUNC", name |-> n, ret_type |-> r,
     param_types |-> ts, param_names |-> ns, body |-> b]

\* a node after memset(node, 0, sizeof *node), by kind of node
Zeroed == Lit("LIT_TYPE")
ZeroedStatement == StmtEmpty
ZeroedBlock == <<>>
ZeroedTopLevel == TopLevelFunc(NULL, Zeroed, <<>>, <<>>, Zeroed)
ZeroedUnit == <<>>

Freed(node, released) == [node |-> node, released |-> released]

\* dealloc(array)
dealloc_array(array) == IF Len(array) = 0 THEN 0 ELSE 1

RECURSIVE expr_free(_)
RECURSIVE statement_free(_)
RECURSIVE block_free(_)
\* expr_free(child); dealloc(child)
expr_free_child(child) == expr_free(child).released + 1

\* a free that returns from the leaf cases before the memset
expr_free_leaves_kept(expr) ==
    IF expr.tag \in {"EXPR_LITERAL", "EXPR_IDENT"} THEN Freed(expr, 0)
    ELSE Freed(Zeroed, 1)

expr_free(expr) ==
    LET types == [i \in 1..Len(expr.param_types) |->
                    expr_free(expr.param_types[i]).released]
        args == [i \in 1..Len(expr.args) |->
                    expr_free(expr.args[i]).released]
        fields == [i \in 1..Len(expr.field_types) |->
                    expr_free(expr.field_types[i]).released]
        assigns == [i \in 1..Len(expr.assigns) |->
                    expr_free(expr.assigns[i]).released]
    IN Freed(Zeroed,
        CASE expr.tag \in {"EXPR_LITERAL", "EXPR_IDENT"} -> 0
          [] expr.tag = "EXPR_BIN_OP" ->
                expr_free_child(expr.expr1) + expr_free_child(expr.expr2)
          [] expr.tag = "EXPR_IFTHENELSE" ->
                expr_free_child(expr.predicate) + expr_free_child(expr.then_)
                    + expr_free_child(expr.else_)
          [] expr.tag = "EXPR_FUNC_TYPE" ->
                expr_free_child(expr.ret_type)
                    + Sum(types)
                    + dealloc_array(expr.param_types) + dealloc_array(expr.param_names)
          [] expr.tag = "EXPR_LAMBDA" ->
                Sum(types)
                    + dealloc_array(expr.param_types) + dealloc_array(expr.param_names)
                    + expr_free_child(expr.body)
          [] expr.tag = "EXPR_CALL" ->
                expr_free_child(expr.func)
                    + Sum(args) + dealloc_array(expr.args)
          [] expr.tag \in {"EXPR_STRUCT", "EXPR_UNION"} ->
                Sum(fields)
                    + dealloc_array(expr.field_types) + dealloc_array(expr.field_names)
          [] expr.tag = "EXPR_PACK" ->
                expr_free_child(expr.type)
                    + Sum(assigns)
                    + dealloc_array(expr.field_names) + dealloc_array(expr.assigns)
          [] expr.tag = "EXPR_MEMBER" -> expr_free_child(expr.record)
          [] expr.tag \in PointerTags -> expr_free_child(expr.pointer)
          [] expr.tag = "EXPR_STATEMENT" ->
                statement_free(expr.statement).released + 1)

statement_free(statement) ==
    LET ifs == [i \in 1..Len(statement.ifs) |->
                    expr_free(statement.ifs[i]).released
                    + block_free(statement.thens[i]).released]
    IN Freed(ZeroedStatement,
        CASE statement.tag = "STATEMENT_EMPTY" -> 0
          [] statement.tag \in {"STATEMENT_EXPR", "STATEMENT_RETURN"} ->
                expr_free(statement.expr).released
          [] statement.tag = "STATEMENT_BLOCK" -> block_free(statement.block).released
          [] statement.tag = "STATEMENT_DECL" ->
                expr_free(statement.type).released
                    + (IF statement.is_initialized
                       THEN expr_free(statement.initial_value).released ELSE 0)
          [] statement.tag = "STATEMENT_IFTHENELSE" ->
                Sum(ifs)
                    + dealloc_array(statement.ifs) + dealloc_array(statement.thens)
                    + block_free(statement.else_).released)

block_free(block) ==
    LET statements == [i \in 1..Len(block) |->
                    statement_free(block[i]).released]
    IN Freed(ZeroedBlock, Sum(statements) + dealloc_array(block))

top_level_free(top_level) ==
    LET types == [i \in 1..Len(top_level.param_types) |->
                    expr_free(top_level.param_types[i]).released]
    IN Freed(ZeroedTopLevel,
            expr_free(top_level.ret_type).released
                + Sum(types)
                + dealloc_array(top_level.param_types)
                + dealloc_array(top_level.param_names)
                + expr_free(top_level.body).released)

translation_unit_free(unit) ==
    LET top_levels == [i \in 1..Len(unit) |->
                    top_level_free(unit[i]).released]
    IN Freed(ZeroedUnit, Sum(top_levels) + dealloc_array(unit))

(***************************************************************************)
(* The lexer (dependent-c.y).  A character is a string of length one and   *)
(* EOF a value that is no character; the text left to read is a sequence   *)
(* of characters.  A token is a string: the character itself for a         *)
(* punctuation token, the name of the TOK_ constant otherwise, YYEOF for   *)
(* the 0 that ends the input.                                              *)
(***************************************************************************)
EOF == "EOF"
YYEOF == "YYEOF"

\* <ctype.h> in the C locale
Letters ==
    {"a", "b", "c", "d", "e", "f", "g", "h", "i", "j", "k", "l", "m", "n",
     "o", "p", "q", "r", "s", "t", "u", "v", "w", "x", "y", "z",
     "A", "B", "C", "D", "E", "F", "G", "H", "I", "J", "K", "L", "M", "N",
     "O", "P", "Q", "R", "S", "T", "U", "V", "W", "X", "Y", "Z"}
DigitChars == <<"0", "1", "2", "3", "4", "5", "6", "7", "8", "9">>
Digits == {DigitChars[i] : i \in 1..10}
isalpha(c) == c \in Letters
isdigit(c) == c \in Digits
isalnum(c) == isalpha(c) \/ isdigit(c)
isspace(c) == c \in {" ", "\t", "\n", "\r"}
\* c - '0'
DigitValue(c) == (CHOOSE i \in 1..10 : DigitChars[i] = c) - 1

\* check_is_reserved(word, then)
Reserved ==
    (<<"t", "y", "p", "e">> :> "TOK_TYPE") @@
    (<<"v", "o", "i", "d">> :> "TOK_VOID") @@
    (<<"u", "8">> :> "TOK_U8") @@
    (<<"s", "8">> :> "TOK_S8") @@
    (<<"u", "1", "6">> :> "TOK_U16") @@
    (<<"s", "1", "6">> :> "TOK_S16") @@
    (<<"u", "3", "2">> :> "TOK_U32") @@
    (<<"s", "3", "2">> :> "TOK_S32") @@
    (<<"u", "6", "4">> :> "TOK_U64") @@
    (<<"s", "6", "4">> :> "TOK_S64") @@
    (<<"b", "o", "o", "l">> :> "TOK_BOOL") @@
    (<<"t", "r", "u", "e">> :> "TOK_TRUE") @@
    (<<"f", "a", "l", "s", "e">> :> "TOK_FALSE") @@
    (<<"s", "t", "r", "u", "c", "t">> :> "TOK_STRUCT") @@
    (<<"u", "n", "i", "o", "n">> :> "TOK_UNION") @@
    (<<"r", "e", "t", "u", "r", "n">> :> "TOK_RETURN") @@
    (<<"i", "f">> :> "TOK_IF") @@
    (<<"e", "l", "s", "e">> :> "TOK_ELSE")

\* what a call hands back: the character read and the stream after it
Popped(c, stream) == [c |-> c, stream |-> stream]

token_stream_pop_char(stream) ==
    LET c == IF stream.source = <<>> THEN EOF ELSE Head(stream.source)
    IN IF c = EOF THEN Popped(c, stream)
       ELSE IF c = "\n"
       THEN Popped(c, [source |-> Tail(stream.source),
                       line |-> stream.line + 1, column |-> 1])
       ELSE Popped(c, [stream EXCEPT !.source = Tail(@), !.column = @ + 1])

\* a push that puts EOF into the source like any character
token_stream_push_char_eof(stream, c) == [stream EXCEPT !.source = <<c>> \o @]

\* pushing EOF back leaves the source at its end; line and column stay
token_stream_push_char(stream, c) ==
    IF c = EOF THEN stream ELSE [stream EXCEPT !.source = <<c>> \o @]

RECURSIVE skip_whitespace(_)
skip_whitespace(stream) ==
    LET p == token_stream_pop_char(stream)
    IN IF isspace(p.c) THEN skip_whitespace(p.stream)
       ELSE token_stream_push_char(p.stream, p.c)

\* YYSTYPE as yylex leaves it, and what one yylex call comes to
NoValue == [ident |-> <<>>, integral |-> 0]
Lexed(token, lval, lloc, stream, printed) ==
    [token |-> token, lval |-> lval, lloc |-> lloc, stream |-> stream,
     diagnostics |-> printed]

\* the while loop over isalnum(c) || c == '_'
RECURSIVE lex_word(_, _)
lex_word(stream, ident) ==
    LET p == token_stream_pop_char(stream)
    IN IF isalnum(p.c) \/ p.c = "_" THEN lex_word(p.stream, Append(ident, p.c))
       ELSE [ident |-> ident, stream |-> token_stream_push_char(p.stream, p.c)]

\* the while loop over isdigit(c); the inputs of the model stay far below
\* the width of uint64_t
RECURSIVE lex_integral(_, _)
lex_integral(stream, integral) ==
    LET p == token_stream_pop_char(stream)
    IN IF isdigit(p.c) THEN lex_integral(p.stream, (integral * 10) + DigitValue(p.c))
       ELSE [integral |-> integral,
             stream |-> token_stream_push_char(p.stream, p.c)]

\* the characters returned as they are
Passed == {"(", ")", "[", "]", "{", "}", ";", ".", ",", "*", "&", "+", "-"}

\* a pass that ends in goto start_of_function
start_of_function == "start_of_function"

\* a lexer that ends the input at a character it does not know
Skipping_giving_up(lloc, stream) ==
    Lexed(YYEOF, NoValue, lloc, stream, 1)

\* fprintf(stderr, "... Skipping.\n"); goto start_of_function;
Skipping(lloc, stream) ==
    Lexed(start_of_function, NoValue, lloc, stream, 1)

\* yylex from start_of_function to its return or its goto
yylex_pass(tokens_in) ==
    LET stream0 == skip_whitespace(tokens_in)
        lloc == [first_line |-> stream0.line, first_column |-> stream0.column]
        p == token_stream_pop_char(stream0)
        c == p.c
        next == token_stream_pop_char(p.stream)
        back == token_stream_push_char(next.stream, next.c)
    IN IF isalpha(c) \/ c = "_"
       THEN LET w == lex_word(token_stream_push_char(p.stream, c), <<>>)
            IN IF w.ident \in DOMAIN Reserved
               THEN Lexed(Reserved[w.ident], NoValue, lloc, w.stream, 0)
               ELSE Lexed("TOK_IDENT", [NoValue EXCEPT !.ident = w.ident],
                          lloc, w.stream, 0)
       ELSE IF isdigit(c)
       THEN LET n == lex_integral(token_stream_push_char(p.stream, c), 0)
            IN Lexed("TOK_INTEGRAL", [NoValue EXCEPT !.integral = n.integral],
                     lloc, n.stream, 0)
       ELSE IF c = "="
       THEN IF next.c = "=" THEN Lexed("TOK_EQ", NoValue, lloc, next.stream, 0)
            ELSE Lexed("=", NoValue, lloc, back, 0)
       ELSE IF c = "!"
       THEN IF next.c = "=" THEN Lexed("TOK_NE", NoValue, lloc, next.stream, 0)
            ELSE Skipping(lloc, back)
       ELSE IF c = "<"
       THEN IF next.c = "=" THEN Lexed("TOK_LTE", NoValue, lloc, next.stream, 0)
            ELSE Lexed("<", NoValue, lloc, back, 0)
       ELSE IF c = ">"
       THEN IF next.c = "=" THEN Lexed("TOK_GTE", NoValue, lloc, next.stream, 0)
            ELSE Lexed(">", NoValue, lloc, back, 0)
       ELSE IF c \in Passed THEN Lexed(c, NoValue, lloc, p.stream, 0)
       ELSE IF c = EOF THEN Lexed(YYEOF, NoValue, lloc, p.stream, 0)
       ELSE Skipping(lloc, p.stream)

RECURSIVE yylex(_)
yylex(tokens_in) ==
    LET r == yylex_pass(tokens_in)
    IN IF r.token = start_of_function
       THEN [yylex(r.stream) EXCEPT !.diagnostics = @ + r.diagnostics]
       ELSE r

(***************************************************************************)
(* The expressions the operations are applied to: every tag of Expr and of *)
(* Statement, lists of up to MaxLen elements, leaves drawn from the        *)
(* literals u8 and 42 and the identifiers over Syms, and composite nodes   *)
(* (a record type, a binder, a block) nested below each kind of parent.    *)
(***************************************************************************)
U8 == Lit("LIT_U8")
Lits == {U8, LitIntegral(42)}
Idents == {Ident(s) : s \in Syms}
Atoms == Lits \cup Idents
\* element types of the generated lists, and the identifiers put below and
\* beside nested nodes
Leaves == {U8, Ident(1)}
Vars == {Ident(1), Ident(NumSyms)}
Ops == {"BIN_OP_ADD", "BIN_OP_EQ"}

\* parallel arrays of n types and n names
TypedNames(n, types, names) == [1..n -> types] \X [1..n -> names]

FuncTypes(rets, types) ==
    {FuncType(r, p[1], p[2]) :
        r \in rets, p \in UNION {TypedNames(n, types, {NULL} \cup Syms) : n \in 0..MaxLen}}
Lambdas(types, bodies) ==
    {Lambda(p[1], p[2], b) :
        b \in bodies, p \in UNION {TypedNames(n, types, Syms) : n \in 0..MaxLen}}
Structs(types) ==
    {Struct(p[1], p[2]) : p \in UNION {TypedNames(n, types, Syms) : n \in 0..MaxLen}}
Unions(types) ==
    {Union(p[1], p[2]) : p \in UNION {TypedNames(n, types, Syms) : n \in 0..MaxLen}}
Packs(types, assigns) ==
    {Pack(t, p[2], p[1]) :
        t \in types, p \in UNION {TypedNames(n, assigns, Syms) : n \in 0..MaxLen}}
Calls(funcs, args) ==
    {Call(f, as) : f \in funcs, as \in UNION {[1..n -> args] : n \in 0..MaxLen}}

\* statements over leaf expressions, and the blocks made of them
SimpleStatements ==
    {StmtEmpty, StmtExpr(Ident(1))}
    \cup {StmtDecl(U8, n) : n \in Syms}
    \cup {StmtDeclInit(U8, n, Ident(1)) : n \in Syms}
Blocks(statements) == UNION {[1..n -> statements] : n \in 0..MaxLen}
LeafBlocks == {<<>>} \cup {<<StmtExpr(e)>> : e \in Vars}
Statements ==
    SimpleStatements
    \cup {StmtReturn(e) : e \in Atoms}
    \cup {StmtDeclInit(Ident(1), n, LitIntegral(42)) : n \in Syms}
    \cup {StmtBlock(b) : b \in Blocks(SimpleStatements)}
    \cup {StmtIfThenElse(<<c>>, <<t>>, e) :
            c \in Vars, t \in LeafBlocks, e \in LeafBlocks}
    \cup {StmtIfThenElse(<<>>, <<>>, e) : e \in LeafBlocks}
    \cup {StmtBlock(<<StmtDecl(U8, n), StmtExpr(e)>>) : n \in Syms, e \in Vars}
    \cup {StmtBlock(<<StmtBlock(<<StmtDecl(U8, n)>>), StmtExpr(e)>>) :
            n \in Syms, e \in Vars}

Flat ==
    Atoms
    \cup {BinOp(o, a, b) : o \in Ops, a \in Atoms, b \in Leaves}
    \cup {IfThenElse(p, a, b) : p \in Vars, a \in Leaves, b \in Vars}
    \cup FuncTypes(Leaves, Leaves)
    \cup Lambdas(Leaves, Leaves)
    \cup Calls(Vars, Leaves)
    \cup Structs(Leaves)
    \cup Unions(Leaves)
    \cup Packs(Leaves, Leaves)
    \cup {Member(r, f) : r \in Atoms, f \in Syms}
    \cup {Pointer(e) : e \in Atoms}
    \cup {Reference(e) : e \in Atoms}
    \cup {Dereference(e) : e \in Atoms}
    \cup {StatementExpr(st) : st \in Statements}

\* one-field records and one-parameter binders, to sit below another node
Inner ==
    {Struct(<<U8>>, <<n>>) : n \in Syms}
    \cup {Pack(U8, <<n>>, <<Ident(1)>>) : n \in Syms}
    \cup {Lambda(<<U8>>, <<n>>, Ident(1)) : n \in Syms}
    \cup {FuncType(Ident(1), <<U8>>, <<n>>) : n \in Syms}

Nested ==
    {BinOp("BIN_OP_ADD", a, b) : a \in Inner, b \in Vars}
    \cup {BinOp("BIN_OP_ADD", a, b) : a \in Vars, b \in Inner}
    \cup {IfThenElse(p, a, b) : p \in Vars, a \in Inner, b \in Vars}
    \cup {Call(f, <<a>>) : f \in Inner, a \in Vars}
    \cup {Call(Ident(1), <<a, b>>) : a \in Inner, b \in Vars}
    \cup {Union(<<a, b>>, <<1, NumSyms>>) : a \in Inner, b \in Vars}
    \cup {Struct(<<a, b>>, <<n, 1>>) : a \in Inner, b \in Vars, n \in Syms}
    \cup {Struct(<<a, b>>, <<n, 1>>) : a \in Vars, b \in Vars, n \in Syms}
    \cup {Pack(t, <<n, 1>>, <<a, b>>) : t \in Vars, a \in Inner, b \in Vars, n \in Syms}
    \cup {Pack(t, <<n, 1>>, <<a, b>>) : t \in Vars, a \in Vars, b \in Vars, n \in Syms}
    \cup {FuncType(r, <<a, b>>, <<n, NULL>>) :
            r \in Vars, a \in Inner, b \in Vars, n \in {NULL} \cup Syms}
    \cup {FuncType(r, <<a, b>>, <<n, m>>) :
            r \in Vars, a \in Vars, b \in Vars, n \in Syms, m \in Syms}
    \cup {FuncType(r, <<U8>>, <<n>>) : r \in Inner, n \in Syms}
    \cup {Lambda(<<a, b>>, <<n, 1>>, c) :
            a \in Inner, b \in Vars, c \in Vars, n \in Syms}
    \cup {Lambda(<<a, b>>, <<n, m>>, c) :
            a \in Vars, b \in Vars, c \in Vars, n \in Syms, m \in Syms}
    \cup {Lambda(<<U8>>, <<n>>, c) : c \in Inner, n \in Syms}
    \cup {Member(r, 1) : r \in Inner}
    \cup {Pointer(e) : e \in Inner}
    \cup {StatementExpr(StmtDeclInit(a, n, b)) : a \in Inner, b \in Vars, n \in Syms}
    \cup {StatementExpr(StmtBlock(<<StmtExpr(a), StmtExpr(b)>>)) :
            a \in Inner \cup Vars, b \in Vars}
    \cup {StatementExpr(StmtIfThenElse(<<a>>, <<(<<StmtExpr(b)>>)>>, <<StmtExpr(c)>>)) :
            a \in Inner, b \in Vars, c \in Vars}
    \cup {StatementExpr(StmtIfThenElse(<<c>>, <<(<<StmtExpr(a)>>)>>, <<StmtExpr(b)>>)) :
            a \in Inner, b \in Vars, c \in Vars}

Exprs == Flat \cup Nested

\* replacements: closed, open in one symbol, open in two, and with a binder
Replacements ==
    {LitIntegral(42)}
    \cup Vars
    \cup {BinOp("BIN_OP_ADD", Ident(1), Ident(NumSyms))}
    \cup {Lambda(<<U8>>, <<1>>, Ident(NumSyms))}

(***************************************************************************)
(* State: one expression under test, the copy taken of it, the arguments   *)
(* and results of the last expr_subst and expr_equal calls; the paths at   *)
(* which the copy shares storage with its source, the kind of node saved   *)
(* holds and the blocks released by each free call made on it.             *)
(***************************************************************************)
VARIABLES expr, saved, name, replacement, context, ret_val, equal_call, pc,
          shared, kind, released

\* the result of the last expr_free_vars call, whether symbol_set_union
\* releases its source, and the symbol sets the call acquired and lost
VARIABLES free_vars, union_releases, leaked

\* the text given to the lexer, the token stream over what is left of it,
\* the tokens yylex has returned and the diagnostics it has printed
VARIABLES input, stream, tokens, diagnostics

ast_vars == <<expr, saved, name, replacement, context, ret_val, equal_call,
              shared, kind, released>>
free_vars_vars == <<free_vars, union_releases, leaked>>
lexer_vars == <<input, stream, tokens, diagnostics>>

vars == <<ast_vars, pc, free_vars_vars, lexer_vars>>

\* the variables of the operations that have not run
NoFreeVars == free_vars = {} /\ union_releases = FALSE /\ leaked = 0
NoLexer ==
    /\ input = <<>>
    /\ stream = [source |-> <<>>, line |-> 1, column |-> 1]
    /\ tokens = <<>>
    /\ diagnostics = 0

Context0 == [gensyms |-> 0, calls |-> 0, failed_at |-> 0, aliased |-> 0,
             memory |-> Zeroed]

Init ==
    /\ expr \in Exprs
    /\ saved = Zeroed
    /\ name = NULL
    /\ replacement = Zeroed
    /\ context = Context0
    /\ ret_val = FALSE
    /\ equal_call = [x |-> "none", y |-> "none", ret |-> FALSE]
    /\ pc = "parsed"
    /\ shared = {}
    /\ kind = "Expr"
    /\ released = <<>>
    /\ NoFreeVars
    /\ NoLexer

\* saved = expr_copy(&expr)
ExprCopy ==
    /\ pc = "parsed"
    /\ saved' = expr_copy(expr)
    /\ shared' = expr_copy_shared(expr)
    /\ pc' = "copied"
    /\ UNCHANGED <<expr, name, replacement, context, ret_val, equal_call,
                   kind, released, free_vars_vars, lexer_vars>>

\* ret_val = expr_subst(&context, &expr, name, &replacement); the copy
\* reads the writes made to storage it shares with expr
ExprSubst ==
    /\ pc = "copied"
    /\ \E n \in Syms, r \in Replacements, aliased \in 0..MaxAliased :
          LET res == expr_subst([Context0 EXCEPT !.aliased = aliased, !.memory = r],
                                expr, n, r)
          IN /\ name' = n
             /\ expr' = res.e
             /\ ret_val' = res.ok
             /\ replacement' = r
             /\ context' = [res.ctx EXCEPT !.aliased = 0]
             /\ saved' = WriteThrough(saved, res.e, shared)
    /\ pc' = "substituted"
    /\ UNCHANGED <<equal_call, shared, kind, released, free_vars_vars, lexer_vars>>

\* equal_call.ret = expr_equal(x, y) for x, y among the live expressions
Operand(which) == IF which = "expr" THEN expr ELSE saved

ExprEqual ==
    /\ pc \in {"copied", "substituted", "paired"}
    /\ \E x \in {"expr", "saved"}, y \in {"expr", "saved"} :
          /\ (pc = "copied") => (<<x, y>> # <<"saved", "saved">>)
          /\ (pc = "substituted") => (<<x, y>> = <<"expr", "saved">>)
          /\ equal_call' = [x |-> x, y |-> y,
                            ret |-> expr_equal(Operand(x), Operand(y))]
    /\ pc' = "compared"
    /\ UNCHANGED <<expr, saved, name, replacement, context, ret_val,
                   shared, kind, released, free_vars_vars, lexer_vars>>

\* what a tree reads as after the storage at paths has been zeroed and
\* released through the tree it shares it with
RECURSIVE ReleaseShared(_, _)
ReleaseShared(t, paths) ==
    IF paths = {} THEN t
    ELSE LET p == CHOOSE q \in paths : \A r \in paths : Len(q) >= Len(r)
         IN ReleaseShared(Graft(t, p, Zeroed), paths \ {p})

\* a free call on the node saved holds, which is live ("copied", "built") or
\* has been freed once; storage the node shares with expr is released with
\* it, and expr reads it as zeroed
FreeSaved(of_kind, freed) ==
    /\ pc \in {"copied", "built", "freed"}
    /\ kind = of_kind
    /\ saved' = freed.node
    /\ released' = Append(released, freed.released)
    /\ expr' = ReleaseShared(expr, shared)
    /\ pc' = IF pc = "freed" THEN "freed_again" ELSE "freed"
    /\ UNCHANGED <<name, replacement, context, ret_val, equal_call, shared, kind,
                   free_vars_vars, lexer_vars>>

ExprFree == FreeSaved("Expr", expr_free(saved))
StatementFree == FreeSaved("Statement", statement_free(saved))
BlockFree == FreeSaved("Block", block_free(saved))
TopLevelFree == FreeSaved("TopLevel", top_level_free(saved))
TranslationUnitFree == FreeSaved("TranslationUnit", translation_unit_free(saved))

Next == ExprCopy \/ ExprSubst \/ ExprEqual \/ ExprFree

Spec == Init /\ [][Next]_vars

(***************************************************************************)
(* expr_equal as a function of two unrelated expressions: both operands    *)
(* are drawn from terms of every tag that differ in one payload at a time  *)
(* (a length, a name, an operator, a later list element).                  *)
(***************************************************************************)
EqualNames == {1, NumSyms}
EqualOperands ==
    Atoms
    \cup {BinOp(o, a, U8) : o \in Ops, a \in Vars}
    \cup {IfThenElse(Ident(1), a, Ident(1)) : a \in Leaves}
    \cup {FuncType(U8, p[1], p[2]) :
            p \in UNION {TypedNames(n, {U8}, {NULL, 1}) : n \in 0..MaxLen}}
    \cup {Lambda(p[1], p[2], U8) :
            p \in UNION {TypedNames(n, Leaves, {1}) : n \in 0..MaxLen}}
    \cup {Call(Ident(1), as) : as \in UNION {[1..n -> Leaves] : n \in 0..MaxLen}}
    \cup {Struct(p[1], p[2]) :
            p \in UNION {TypedNames(n, {U8}, EqualNames) : n \in 0..MaxLen}}
    \cup {Union(<<U8>>, <<n>>) : n \in EqualNames}
    \cup {Pack(U8, <<n>>, <<U8>>) : n \in EqualNames}
    \cup {Member(Ident(1), f) : f \in EqualNames}
    \cup {Pointer(U8), Pointer(Ident(1)), Reference(U8), Dereference(U8)}
    \cup {StatementExpr(StmtEmpty)}

EqualInit ==
    /\ expr \in EqualOperands
    /\ saved \in EqualOperands
    /\ name = NULL
    /\ replacement = Zeroed
    /\ context = Context0
    /\ ret_val = FALSE
    /\ equal_call = [x |-> "none", y |-> "none", ret |-> FALSE]
    /\ pc = "paired"
    /\ shared = {}
    /\ kind = "Expr"
    /\ released = <<>>
    /\ NoFreeVars
    /\ NoLexer

EqualNext == ExprEqual

EqualSpec == EqualInit /\ [][EqualNext]_vars

(***************************************************************************)
(* The free operations on each kind of node the parser builds: an          *)
(* expression, a statement, a block, a top-level function, a translation   *)
(* unit.  Each node is freed, then freed once more.                        *)
(***************************************************************************)
TopLevels ==
    {TopLevelFunc(1, r, p[1], p[2], StatementExpr(StmtBlock(b))) :
        r \in Leaves, b \in LeafBlocks,
        p \in UNION {TypedNames(n, Leaves, {1}) : n \in 0..MaxLen}}
Units ==
    UNION {[1..n -> {TopLevelFunc(1, U8, <<>>, <<>>, StatementExpr(StmtBlock(<<>>))),
                     TopLevelFunc(NumSyms, U8, <<Ident(1)>>, <<1>>,
                                  StatementExpr(StmtBlock(<<StmtReturn(Ident(1))>>)))}]
           : n \in 0..MaxLen}
Nodes ==
    [kind : {"Expr"}, node : Exprs]
    \cup [kind : {"Statement"}, node : Statements]
    \cup [kind : {"Block"}, node : Blocks(SimpleStatements)]
    \cup [kind : {"TopLevel"}, node : TopLevels]
    \cup [kind : {"TranslationUnit"}, node : Units]

FreeInit ==
    /\ \E n \in Nodes : saved = n.node /\ kind = n.kind
    /\ expr = Zeroed
    /\ name = NULL
    /\ replacement = Zeroed
    /\ context = Context0
    /\ ret_val = FALSE
    /\ equal_call = [x |-> "none", y |-> "none", ret |-> FALSE]
    /\ pc = "built"
    /\ shared = {}
    /\ released = <<>>
    /\ NoFreeVars
    /\ NoLexer

FreeNext ==
    ExprFree \/ StatementFree \/ BlockFree \/ TopLevelFree \/ TranslationUnitFree

FreeSpec == FreeInit /\ [][FreeNext]_vars

(***************************************************************************)
(* expr_free_vars as a function of the expression: the terms of Exprs and  *)
(* the two-field struct types { t n; f(a, b) data; } over the symbols      *)
(* 1..NumSyms + 2, where t is the reserved word u32 (the literal LIT_U32)  *)
(* or an identifier.                                                       *)
(***************************************************************************)
U32 == Lit("LIT_U32")
ScenarioSyms == 1..(NumSyms + 2)
DependentStruct(t, n, f, a, b, data) ==
    Struct(<<t, Call(Ident(f), <<Ident(a), Ident(b)>>)>>, <<n, data>>)
DependentStructs ==
    {DependentStruct(t, n, f, a, b, data) :
        t \in {U32, Ident(1)}, n \in ScenarioSyms, f \in ScenarioSyms,
        a \in ScenarioSyms, b \in ScenarioSyms, data \in {1, NumSyms + 2}}

FreeVarsInit ==
    /\ expr \in Exprs \cup DependentStructs
    /\ saved = Zeroed
    /\ name = NULL
    /\ replacement = Zeroed
    /\ context = Context0
    /\ ret_val = FALSE
    /\ equal_call = [x |-> "none", y |-> "none", ret |-> FALSE]
    /\ pc = "parsed"
    /\ shared = {}
    /\ kind = "Expr"
    /\ released = <<>>
    /\ NoFreeVars
    /\ NoLexer

\* expr_free_vars(&expr, &free_vars)
ExprFreeVars ==
    /\ pc = "parsed"
    /\ free_vars' = expr_free_vars(expr)
    /\ \E releases \in BOOLEAN :
          /\ union_releases' = releases
          /\ leaked' = expr_free_vars_leaked(expr, IF releases THEN 0 ELSE 1)
    /\ pc' = "analysed"
    /\ UNCHANGED <<ast_vars, lexer_vars>>

FreeVarsNext == ExprFreeVars

FreeVarsSpec == FreeVarsInit /\ [][FreeVarsNext]_vars

(***************************************************************************)
(* The lexer on every text of up to MaxInput characters over: letters that *)
(* spell an identifier and the reserved word if, a digit, the characters   *)
(* of the two-character symbols, a character returned as it is, a          *)
(* character yylex has no case for, and white space.  The parser calls     *)
(* yylex until it returns 0.                                               *)
(***************************************************************************)
Alphabet == {"i", "f", "1", "=", "!", "<", "+", ":", " ", "\n"}
Inputs == UNION {[1..n -> Alphabet] : n \in 0..MaxInput}

LexerInit ==
    /\ input \in Inputs
    /\ stream = [source |-> input, line |-> 1, column |-> 1]
    /\ tokens = <<>>
    /\ diagnostics = 0
    /\ pc = "lexing"
    /\ expr = Zeroed
    /\ saved = Zeroed
    /\ name = NULL
    /\ replacement = Zeroed
    /\ context = Context0
    /\ ret_val = FALSE
    /\ equal_call = [x |-> "none", y |-> "none", ret |-> FALSE]
    /\ shared = {}
    /\ kind = "Expr"
    /\ released = <<>>
    /\ NoFreeVars

\* token = yylex(&lval, &lloc, context)
YyLex ==
    /\ pc = "lexing"
    /\ LET r == yylex(stream)
       IN /\ tokens' = Append(tokens, [token |-> r.token, lval |-> r.lval,
                                        lloc |-> r.lloc])
          /\ stream' = r.stream
          /\ diagnostics' = diagnostics + r.diagnostics
          /\ pc' = IF r.token = YYEOF THEN "end_of_input" ELSE "lexing"
    /\ UNCHANGED <<input, ast_vars, free_vars_vars>>

\* token = yylex(&lval, &lloc, context), once more after yylex has returned 0
YyLexAgain ==
    /\ pc = "end_of_input"
    /\ LET r == yylex(stream)
       IN /\ tokens' = Append(tokens, [token |-> r.token, lval |-> r.lval,
                                        lloc |-> r.lloc])
          /\ stream' = r.stream
          /\ diagnostics' = diagnostics + r.diagnostics
    /\ pc' = "past_end"
    /\ UNCHANGED <<input, ast_vars, free_vars_vars>>

LexerNext == YyLex \/ YyLexAgain

LexerSpec == LexerInit /\ [][LexerNext]_vars

(***************************************************************************)
(* Properties of substitution.  After ExprSubst, saved is the term as it   *)
(* was before the call and expr the term as the call left it.              *)
(***************************************************************************)
Substituted == pc = "substituted"
FreeBefore == expr_free_vars(saved)
FreeAfter == expr_free_vars(expr)
F == expr_free_vars(replacement)

\* C1: after a successful subst(term, name, r) with name not free in r,
\* name does not occur free in the resulting term.
C1_NameNoLongerFree ==
    (Substituted /\ ret_val /\ name \notin F) => name \notin FreeAfter

\* the symbols bound by a binder somewhere in a term: parameter names of
\* FuncType / Lambda, field names of Struct / Pack, names of Decl statements
RECURSIVE Binders(_)
RECURSIVE StatementBinders(_)
RECURSIVE BlockBinders(_)
Binders(e) ==
    CASE e.tag \in {"EXPR_LITERAL", "EXPR_IDENT"} -> {}
      [] e.tag = "EXPR_BIN_OP" -> Binders(e.expr1) \cup Binders(e.expr2)
      [] e.tag = "EXPR_IFTHENELSE" ->
            Binders(e.predicate) \cup Binders(e.then_) \cup Binders(e.else_)
      [] e.tag = "EXPR_FUNC_TYPE" ->
            ({e.param_names[i] : i \in 1..Len(e.param_names)} \ {NULL})
            \cup Binders(e.ret_type)
            \cup UNION {Binders(e.param_types[i]) : i \in 1..Len(e.param_types)}
      [] e.tag = "EXPR_LAMBDA" ->
            {e.param_names[i] : i \in 1..Len(e.param_names)}
            \cup Binders(e.body)
            \cup UNION {Binders(e.param_types[i]) : i \in 1..Len(e.param_types)}
      [] e.tag = "EXPR_CALL" ->
            Binders(e.func) \cup UNION {Binders(e.args[i]) : i \in 1..Len(e.args)}
      [] e.tag = "EXPR_STRUCT" ->
            {e.field_names[i] : i \in 1..Len(e.field_names)}
            \cup UNION {Binders(e.field_types[i]) : i \in 1..Len(e.field_types)}
      [] e.tag = "EXPR_UNION" ->
            UNION {Binders(e.field_types[i]) : i \in 1..Len(e.field_types)}
      [] e.tag = "EXPR_PACK" ->
            {e.field_names[i] : i \in 1..Len(e.field_names)}
            \cup Binders(e.type)
            \cup UNION {Binders(e.assigns[i]) : i \in 1..Len(e.assigns)}
      [] e.tag = "EXPR_MEMBER" -> Binders(e.record)
      [] e.tag \in PointerTags -> Binders(e.pointer)
      [] e.tag = "EXPR_STATEMENT" -> StatementBinders(e.statement)

StatementBinders(st) ==
    CASE st.tag = "STATEMENT_EMPTY" -> {}
      [] st.tag \in {"STATEMENT_EXPR", "STATEMENT_RETURN"} -> Binders(st.expr)
      [] st.tag = "STATEMENT_BLOCK" -> BlockBinders(st.block)
      [] st.tag = "STATEMENT_DECL" ->
            {st.name} \cup Binders(st.type)
            \cup (IF st.is_initialized THEN Binders(st.initial_value) ELSE {})
      [] st.tag = "STATEMENT_IFTHENELSE" ->
            BlockBinders(st.else_)
            \cup UNION {Binders(st.ifs[i]) : i \in 1..Len(st.ifs)}
            \cup UNION {BlockBinders(st.thens[i]) : i \in 1..Len(st.thens)}

BlockBinders(b) == UNION {StatementBinders(b[i]) : i \in 1..Len(b)}

\* C2: no capture: after a successful subst every binder of the resulting term
\* (parameter name, Struct / Pack field name, Decl name) binds a symbol that is
\* not free in the replacement.  (Checked where name is free in the term and
\* no binder of the term is named name, so that the replacement is inserted
\* and no part of the term is skipped as shadowed, and where the replacement
\* brings no binder of its own named like one of its free variables.)
C2_NoCapture ==
    (/\ Substituted
     /\ ret_val
     /\ name \in FreeBefore
     /\ name \notin Binders(saved)
     /\ Binders(replacement) \cap F = {}) => Binders(expr) \cap F = {}

\* C3: after a successful subst(x, y, r) the free variables of the term are
\* among (freeVars(x) minus {y}) united with freeVars(r).
C3_FreeVarsBounded ==
    (Substituted /\ ret_val) => FreeAfter \subseteq ((FreeBefore \ {name}) \cup F)

\* C4: if y is not free in x, subst(x, y, r) leaves x unchanged as seen by
\* expr_equal against the copy taken before the call (on terms that
\* expr_equal finds equal to themselves).
C4_NoOpWhenNotFree ==
    (/\ pc = "compared"
     /\ name # NULL
     /\ equal_call.y = "saved"
     /\ name \notin FreeBefore
     /\ expr_equal(saved, saved)) => equal_call.ret

\* C5: subst on Ident(s) returns ok; the node becomes a copy of the
\* replacement when s is name and stays Ident(s) when s is another symbol.
C5_IdentCase ==
    (Substituted /\ saved.tag = "EXPR_IDENT") =>
        /\ ret_val
        /\ expr = (IF saved.ident = name THEN replacement ELSE saved)

\* C10: expr_equal is reflexive: expr_equal(x, x) returns true for every
\* well-formed expression x.  (Checked on the expressions that are not
\* Statement-wrapped, whose comparison the code leaves unimplemented.)
C10_EqualReflexive ==
    (/\ pc = "compared"
     /\ equal_call.x = "expr"
     /\ equal_call.y = "expr"
     /\ expr.tag # "EXPR_STATEMENT") => equal_call.ret

\* every Expr node of a term, the term itself included
RECURSIVE Subexprs(_)
RECURSIVE StatementSubexprs(_)
RECURSIVE BlockSubexprs(_)
Subexprs(e) ==
    {e} \cup
    CASE e.tag \in {"EXPR_LITERAL", "EXPR_IDENT"} -> {}
      [] e.tag = "EXPR_BIN_OP" -> Subexprs(e.expr1) \cup Subexprs(e.expr2)
      [] e.tag = "EXPR_IFTHENELSE" ->
            Subexprs(e.predicate) \cup Subexprs(e.then_) \cup Subexprs(e.else_)
      [] e.tag = "EXPR_FUNC_TYPE" ->
            Subexprs(e.ret_type)
            \cup UNION {Subexprs(e.param_types[i]) : i \in 1..Len(e.param_types)}
      [] e.tag = "EXPR_LAMBDA" ->
            Subexprs(e.body)
            \cup UNION {Subexprs(e.param_types[i]) : i \in 1..Len(e.param_types)}
      [] e.tag = "EXPR_CALL" ->
            Subexprs(e.func) \cup UNION {Subexprs(e.args[i]) : i \in 1..Len(e.args)}
      [] e.tag \in {"EXPR_STRUCT", "EXPR_UNION"} ->
            UNION {Subexprs(e.field_types[i]) : i \in 1..Len(e.field_types)}
      [] e.tag = "EXPR_PACK" ->
            Subexprs(e.type) \cup UNION {Subexprs(e.assigns[i]) : i \in 1..Len(e.assigns)}
      [] e.tag = "EXPR_MEMBER" -> Subexprs(e.record)
      [] e.tag \in PointerTags -> Subexprs(e.pointer)
      [] e.tag = "EXPR_STATEMENT" -> StatementSubexprs(e.statement)

StatementSubexprs(st) ==
    CASE st.tag = "STATEMENT_EMPTY" -> {}
      [] st.tag \in {"STATEMENT_EXPR", "STATEMENT_RETURN"} -> Subexprs(st.expr)
      [] st.tag = "STATEMENT_BLOCK" -> BlockSubexprs(st.block)
      [] st.tag = "STATEMENT_DECL" ->
            Subexprs(st.type)
            \cup (IF st.is_initialized THEN Subexprs(st.initial_value) ELSE {})
      [] st.tag = "STATEMENT_IFTHENELSE" ->
            BlockSubexprs(st.else_)
            \cup UNION {Subexprs(st.ifs[i]) : i \in 1..Len(st.ifs)}
            \cup UNION {BlockSubexprs(st.thens[i]) : i \in 1..Len(st.thens)}

BlockSubexprs(b) == UNION {StatementSubexprs(b[i]) : i \in 1..Len(b)}

\* the field names of the Struct and Pack nodes of a term
RecordFieldNames(e) ==
    UNION {{x.field_names[i] : i \in 1..Len(x.field_names)} :
            x \in {y \in Subexprs(e) : y.tag \in {"EXPR_STRUCT", "EXPR_PACK"}}}

\* the one way a substitution of the replacement into e can return fail is a
\* Struct or Pack field of e named like a free variable of the replacement
CannotRefuse(e) == RecordFieldNames(e) \cap F = {}

\* y is x with identifiers possibly replaced by whole terms and binders
\* possibly renamed, every Struct / Union / Pack keeping its field names
RECURSIVE FieldNamesKept(_, _)
RECURSIVE StatementFieldNamesKept(_, _)
RECURSIVE BlockFieldNamesKept(_, _)
FieldNamesKept(x, y) ==
    IF x.tag \in {"EXPR_LITERAL", "EXPR_IDENT"} THEN TRUE
    ELSE IF y.tag # x.tag THEN FALSE
    ELSE CASE x.tag = "EXPR_BIN_OP" ->
                FieldNamesKept(x.expr1, y.expr1) /\ FieldNamesKept(x.expr2, y.expr2)
      [] x.tag = "EXPR_IFTHENELSE" ->
            /\ FieldNamesKept(x.predicate, y.predicate)
            /\ FieldNamesKept(x.then_, y.then_)
            /\ FieldNamesKept(x.else_, y.else_)
      [] x.tag = "EXPR_FUNC_TYPE" ->
            /\ Len(y.param_types) = Len(x.param_types)
            /\ FieldNamesKept(x.ret_type, y.ret_type)
            /\ \A i \in 1..Len(x.param_types) :
                    FieldNamesKept(x.param_types[i], y.param_types[i])
      [] x.tag = "EXPR_LAMBDA" ->
            /\ Len(y.param_types) = Len(x.param_types)
            /\ FieldNamesKept(x.body, y.body)
            /\ \A i \in 1..Len(x.param_types) :
                    FieldNamesKept(x.param_types[i], y.param_types[i])
      [] x.tag = "EXPR_CALL" ->
            /\ Len(y.args) = Len(x.args)
            /\ FieldNamesKept(x.func, y.func)
            /\ \A i \in 1..Len(x.args) : FieldNamesKept(x.args[i], y.args[i])
      [] x.tag \in {"EXPR_STRUCT", "EXPR_UNION"} ->
            /\ y.field_names = x.field_names
            /\ Len(y.field_types) = Len(x.field_types)
            /\ \A i \in 1..Len(x.field_types) :
                    FieldNamesKept(x.field_types[i], y.field_types[i])
      [] x.tag = "EXPR_PACK" ->
            /\ y.field_names = x.field_names
            /\ Len(y.assigns) = Len(x.assigns)
            /\ FieldNamesKept(x.type, y.type)
            /\ \A i \in 1..Len(x.assigns) : FieldNamesKept(x.assigns[i], y.assigns[i])
      [] x.tag = "EXPR_MEMBER" -> FieldNamesKept(x.record, y.record)
      [] x.tag \in PointerTags -> FieldNamesKept(x.pointer, y.pointer)
      [] x.tag = "EXPR_STATEMENT" -> StatementFieldNamesKept(x.statement, y.statement)

StatementFieldNamesKept(x, y) ==
    IF y.tag # x.tag THEN FALSE
    ELSE CASE x.tag = "STATEMENT_EMPTY" -> TRUE
      [] x.tag \in {"STATEMENT_EXPR", "STATEMENT_RETURN"} -> FieldNamesKept(x.expr, y.expr)
      [] x.tag = "STATEMENT_BLOCK" -> BlockFieldNamesKept(x.block, y.block)
      [] x.tag = "STATEMENT_DECL" ->
            /\ y.is_initialized = x.is_initialized
            /\ FieldNamesKept(x.type, y.type)
            /\ x.is_initialized => FieldNamesKept(x.initial_value, y.initial_value)
      [] x.tag = "STATEMENT_IFTHENELSE" ->
            /\ Len(y.ifs) = Len(x.ifs)
            /\ BlockFieldNamesKept(x.else_, y.else_)
            /\ \A i \in 1..Len(x.ifs) :
                    /\ FieldNamesKept(x.ifs[i], y.ifs[i])
                    /\ BlockFieldNamesKept(x.thens[i], y.thens[i])

BlockFieldNamesKept(x, y) ==
    /\ Len(y) = Len(x)
    /\ \A i \in 1..Len(x) : StatementFieldNamesKept(x[i], y[i])

IsRecord(e) == e.tag \in {"EXPR_STRUCT", "EXPR_PACK"}
\* what the substitution goes into at field i of a Struct or Pack
FieldTerm(e, i) == IF e.tag = "EXPR_STRUCT" THEN e.field_types[i] ELSE e.assigns[i]
\* the fields named like a free variable of the replacement (and not like
\* name) that no field named name precedes
RefusingFields(e) ==
    {k \in 1..Len(e.field_names) :
        /\ e.field_names[k] \in F \ {name}
        /\ \A j \in 1..(k - 1) : e.field_names[j] # name}
Least(S) == CHOOSE k \in S : \A j \in S : k <= j

IsBinder(e) == e.tag \in {"EXPR_FUNC_TYPE", "EXPR_LAMBDA"}
\* the return type of a FuncType, the body of a Lambda
Scope(e) == IF e.tag = "EXPR_FUNC_TYPE" THEN e.ret_type ELSE e.body
\* the parameter named name that the left-to-right loop reaches: the first
\* one so named, provided no parameter type up to it can make subst fail
ShadowingParams(e) ==
    {k \in 1..Len(e.param_names) :
        /\ e.param_names[k] = name
        /\ \A j \in 1..(k - 1) : e.param_names[j] # name
        /\ \A j \in 1..k : CannotRefuse(e.param_types[j])}
RestUntouched(k) ==
    /\ ret_val
    /\ Scope(expr) = Scope(saved)
    /\ \A j \in 1..Len(saved.param_types) :
            j > k => expr.param_types[j] = saved.param_types[j]

\* C7 as stated: when subst on a FuncType or Lambda reaches a parameter named
\* name it returns ok, and the return type / body and every later parameter
\* type are exactly as before the call.  (Checked where the return type / body
\* mentions only parameters that precede the shadowing one.)
C7_ShadowingLeavesRestAsBefore ==
    (/\ Substituted
     /\ IsBinder(saved)
     /\ ShadowingParams(saved) # {}) =>
        LET k == Least(ShadowingParams(saved))
        IN (expr_free_vars(Scope(saved)) \subseteq {saved.param_names[j] : j \in 1..(k - 1)})
                => RestUntouched(k)

\* C7 amended: when subst on a FuncType or Lambda reaches a parameter named
\* name and no earlier parameter is named like a free variable of the
\* replacement (none has been renamed), it returns ok, and the return type /
\* body and every later parameter type are exactly as before the call.
C7_ShadowingWithoutRename ==
    (/\ Substituted
     /\ IsBinder(saved)
     /\ ShadowingParams(saved) # {}) =>
        LET k == Least(ShadowingParams(saved))
        IN (\A j \in 1..(k - 1) : saved.param_names[j] \notin F) => RestUntouched(k)

\* the scenario subst(\(u8 x) -> x, x, 42), and a first parameter named name
\* shadowing a later parameter type and a body that mention name
C7_Witness ==
    /\ Substituted
    /\ saved = Lambda(<<U8>>, <<name>>, Ident(name))
    /\ replacement = LitIntegral(42)
    /\ expr = saved

C7_WitnessLater ==
    /\ Substituted
    /\ IsBinder(saved)
    /\ ShadowingParams(saved) = {1}
    /\ Len(saved.param_types) = 2
    /\ saved.param_types[2] = Ident(name)
    /\ Scope(saved) = Ident(name)
    /\ replacement # Ident(name)

\* the children of a node whose case substitutes into each child in turn
HasChildren(e) ==
    e.tag \in {"EXPR_BIN_OP", "EXPR_IFTHENELSE", "EXPR_CALL", "EXPR_UNION",
               "EXPR_MEMBER"} \cup PointerTags
Children(e) ==
    CASE e.tag = "EXPR_BIN_OP" -> <<e.expr1, e.expr2>>
      [] e.tag = "EXPR_IFTHENELSE" -> <<e.predicate, e.then_, e.else_>>
      [] e.tag = "EXPR_CALL" -> <<e.func>> \o e.args
      [] e.tag = "EXPR_UNION" -> e.field_types
      [] e.tag = "EXPR_MEMBER" -> <<e.record>>
      [] e.tag \in PointerTags -> <<e.pointer>>

\* the children substituted one after the other, stopping at the first fail
ChildrenUpToFailure(e, aliased) ==
    subst_each([Context0 EXCEPT !.calls = 1, !.aliased = aliased, !.memory = replacement],
               Children(e), name, replacement, 1)

C9_ReplacementUntouched ==
    Substituted => context.memory = replacement

\* a failed call that had already put a copy of a composite replacement into
\* the term
C9_Witness ==
    /\ Substituted
    /\ ~ret_val
    /\ replacement.tag = "EXPR_BIN_OP"
    /\ replacement \in Subexprs(expr)
    /\ replacement \notin Subexprs(saved)

(***************************************************************************)
(* Properties of expr_copy and expr_equal.                                 *)
(***************************************************************************)
\* saved is the copy ExprCopy took and no substitution has touched expr
CopyCompared ==
    /\ pc = "compared"
    /\ name = NULL
    /\ saved = expr_copy(expr)

\* C11: expr_equal(expr_copy(x), x) returns true (checked on every x whose
\* root is not Statement-wrapped, for which expr_equal is not implemented)
C11_CopyEqualsSource ==
    (/\ CopyCompared
     /\ equal_call.x = "saved"
     /\ equal_call.y = "expr"
     /\ expr.tag # "EXPR_STATEMENT") => equal_call.ret

\* C13: expr_equal(x, y) and expr_equal(y, x) return the same boolean
C13_EqualSymmetric ==
    (pc = "compared") =>
        equal_call.ret = expr_equal(Operand(equal_call.y), Operand(equal_call.x))

\* two different lambdas that expr_equal takes for equal, compared in the
\* order (saved, expr)
C13_Witness ==
    /\ pc = "compared"
    /\ equal_call.x = "saved"
    /\ equal_call.y = "expr"
    /\ expr # saved
    /\ expr.tag = "EXPR_LAMBDA"
    /\ equal_call.ret

\* C14: the free-variable set of expr_copy(x) is the free-variable set of x
C14_CopyKeepsFreeVars ==
    (pc = "copied") => expr_free_vars(saved) = expr_free_vars(expr)

\* a copied if/else statement with a condition, whose branches have free
\* variables
C14_Witness ==
    /\ pc = "copied"
    /\ saved.tag = "EXPR_STATEMENT"
    /\ saved.statement.tag = "STATEMENT_IFTHENELSE"
    /\ Len(saved.statement.ifs) = 1
    /\ saved.statement.thens[1] # <<>>
    /\ saved.statement.else_ # <<>>
    /\ Cardinality(expr_free_vars(saved)) = 2

(***************************************************************************)
(* Properties of the storage of a copy and of the free operations.         *)
(***************************************************************************)
\* C12: expr_copy allocates every child node and payload array afresh, so a
\* subst applied to the source leaves the copy, and a free applied to the
\* copy leaves the source, as it was
C12_CopyIndependent ==
    [][/\ (ExprSubst => saved' = saved)
       /\ (ExprFree => expr' = expr)
       /\ (ExprCopy => shared' = {})]_vars

\* a substitution that rewrote a child of the source while the copy was live
C12_Witness ==
    /\ pc = "substituted"
    /\ saved.tag \in PointerTags
    /\ expr # saved
    /\ expr.pointer # saved.pointer

\* the zeroed node of each kind
ZeroedOf(k) ==
    CASE k = "Expr" -> Zeroed
      [] k = "Statement" -> ZeroedStatement
      [] k = "Block" -> ZeroedBlock
      [] k = "TopLevel" -> ZeroedTopLevel
      [] k = "TranslationUnit" -> ZeroedUnit

\* C16: after a free operation returns the node is zeroed, and the same
\* operation called again on it releases nothing and leaves it zeroed
C16_FreedIsZeroed ==
    /\ (pc \in {"freed", "freed_again"}) => saved = ZeroedOf(kind)
    /\ (pc = "freed_again") => released[2] = 0

\* a top-level function with parameters, freed twice
C16_Witness ==
    /\ pc = "freed_again"
    /\ kind = "TopLevel"
    /\ released[1] >= 3
    /\ released[2] = 0

(***************************************************************************)
(* Properties of the free-variable analysis.                               *)
(***************************************************************************)
\* C15: every symbol set acquired while running freeVars, other than the
\* result set, has been released when the operation returns (checked with
\* a symbol_set_union that releases its source)
C15_NoSymbolSetLeak ==
    (pc = "analysed" /\ union_releases) => leaked = 0

\* expr is struct { u32 n; array(T, n) data; } for four different symbols
IsScenarioStruct(n, array, T, data) ==
    /\ Cardinality({n, array, T, data}) = 4
    /\ expr = DependentStruct(U32, n, array, T, n, data)

\* C18 as stated: the free-variable set of struct { u32 n; array(T, n)
\* data; } is {u32, array, T}, three symbols of which n is none
C18_DependentStructThreeFree ==
    \A n \in ScenarioSyms, array \in ScenarioSyms,
       T \in ScenarioSyms, data \in ScenarioSyms :
        (pc = "analysed" /\ IsScenarioStruct(n, array, T, data)) =>
            /\ Cardinality(free_vars) = 3
            /\ {array, T} \subseteq free_vars
            /\ n \notin free_vars

\* C18: the free-variable set of struct { u32 n; array(T, n) data; } is
\* exactly {array, T}: u32 is a literal and n is bound by the first field
C18_DependentStructFree ==
    \A n \in ScenarioSyms, array \in ScenarioSyms,
       T \in ScenarioSyms, data \in ScenarioSyms :
        (pc = "analysed" /\ IsScenarioStruct(n, array, T, data)) =>
            free_vars = {array, T}

\* the analysis has run on an instance of the scenario
C18_Witness ==
    /\ pc = "analysed"
    /\ \E n \in ScenarioSyms, array \in ScenarioSyms,
          T \in ScenarioSyms, data \in ScenarioSyms :
            IsScenarioStruct(n, array, T, data)
    /\ Cardinality(free_vars) = 2

(***************************************************************************)
(* Scenarios of substitution.                                              *)
(***************************************************************************)
\* the call was subst(\(u8 y) -> x, x, Ident(y)) for two different symbols
IsRenameScenario(x, y) ==
    /\ Substituted
    /\ x # y
    /\ saved = Lambda(<<U8>>, <<y>>, Ident(x))
    /\ name = x
    /\ replacement = Ident(y)

\* C17: substituting y for x in \(u8 y) -> x returns ok and yields a lambda
\* with one parameter of type u8 named by a fresh symbol other than y, and
\* the body Ident(y)
C17_CaptureAvoidingRename ==
    \A x \in Syms, y \in Syms :
        IsRenameScenario(x, y) =>
            /\ ret_val
            /\ expr.tag = "EXPR_LAMBDA"
            /\ expr.param_types = <<U8>>
            /\ Len(expr.param_names) = 1
            /\ expr.param_names[1] \notin Syms \cup {NULL, y}
            /\ expr.body = Ident(y)

\* the scenario has run and the parameter has a new name
C17_Witness ==
    /\ \E x \in Syms, y \in Syms : IsRenameScenario(x, y)
    /\ expr.param_names # saved.param_names

(***************************************************************************)
(* Properties of the lexer.                                                *)
(***************************************************************************)
\* ispunct in the C locale, of the characters of Alphabet and of yylex
Punctuation ==
    Passed \cup {"=", "!", "<", ">", ":", "_"}

\* the tokens returned, without their locations
Returned(ts) == [i \in 1..Len(ts) |-> [token |-> ts[i].token, lval |-> ts[i].lval]]

\* position i of the text holds a punctuation character that is no part of
\* an identifier and has no = beside it to make a two-character symbol with
Standalone(text, i) ==
    /\ text[i] \in Punctuation \ {"_"}
    /\ (i < Len(text)) => text[i + 1] # "="
    /\ (i > 1 /\ text[i] = "=") => text[i - 1] \notin {"=", "!", "<", ">"}

Occurrences(c, text) == Cardinality({i \in 1..Len(text) : Standalone(text, i) /\ text[i] = c})
TokensEqual(c, ts) == Cardinality({i \in 1..Len(ts) : ts[i].token = c})

\* C19: every punctuation character standing alone in the text is returned
\* as a token equal to that character
C19_PunctuationPassedThrough ==
    (pc = "end_of_input") =>
        \A c \in Punctuation : TokensEqual(c, tokens) >= Occurrences(c, input)

\* position i of the text holds a character that starts no token
StartsNoToken(text, i) ==
    \/ /\ text[i] = "!"
       /\ (i < Len(text)) => text[i + 1] # "="
    \/ /\ ~isalnum(text[i])
       /\ ~isspace(text[i])
       /\ text[i] \notin Passed \cup {"_", "=", "!", "<", ">"}

\* the text without the characters that start no token, a blank in the
\* place of each
Blanked(text) ==
    [i \in 1..Len(text) |-> IF StartsNoToken(text, i) THEN " " ELSE text[i]]

\* the tokens the parser gets from a text: yylex called until it returns 0
RECURSIVE AllTokens(_)
AllTokens(s) ==
    LET r == yylex(s)
        t == [token |-> r.token, lval |-> r.lval]
    IN IF r.token = YYEOF THEN <<t>> ELSE <<t>> \o AllTokens(r.stream)

\* C20: a character that starts no token costs one diagnostic and that one
\* character: the tokens returned are those of the text with a blank in its
\* place, all of them, in order
C20_LexicalErrorRecovery ==
    (pc = "end_of_input") =>
        /\ Returned(tokens)
             = AllTokens([source |-> Blanked(input), line |-> 1, column |-> 1])
        /\ diagnostics = Cardinality({i \in 1..Len(input) : StartsNoToken(input, i)})

\* a text with a token before and a token after a character that starts
\* none, lexed to its end
C20_Witness ==
    /\ pc = "end_of_input"
    /\ Len(input) = 3
    /\ StartsNoToken(input, 2)
    /\ diagnostics = 1
    /\ Len(tokens) = 3

(***************************************************************************)
(* expr_equal case by case, on the two operands of the last call.          *)
(***************************************************************************)
ComparedX == Operand(equal_call.x)
ComparedY == Operand(equal_call.y)

\* the last call compared two expressions of tag t
Compared(t) ==
    /\ pc = "compared"
    /\ ComparedX.tag = t
    /\ ComparedY.tag = t

\* C21: on two BinOps expr_equal returns true exactly when the operators are
\* the same, the first operands are equal and the second operands are equal
C21_BinOpEqual ==
    Compared("EXPR_BIN_OP") =>
        equal_call.ret = (/\ ComparedX.op = ComparedY.op
                          /\ expr_equal(ComparedX.expr1, ComparedY.expr1)
                          /\ expr_equal(ComparedX.expr2, ComparedY.expr2))

\* the parallel arrays of a binder or a record type
ListTypes(e) ==
    IF e.tag \in {"EXPR_FUNC_TYPE", "EXPR_LAMBDA"} THEN e.param_types ELSE e.field_types
ListNames(e) ==
    IF e.tag \in {"EXPR_FUNC_TYPE", "EXPR_LAMBDA"} THEN e.param_names ELSE e.field_names

\* same length, the i-th types equal and the i-th names the same symbol for
\* every i, and equal return types or bodies
PairwiseEqual(x, y) ==
    /\ Len(ListTypes(x)) = Len(ListTypes(y))
    /\ \A i \in 1..Len(ListTypes(x)) :
          /\ expr_equal(ListTypes(x)[i], ListTypes(y)[i])
          /\ ListNames(x)[i] = ListNames(y)[i]
    /\ (x.tag = "EXPR_FUNC_TYPE") => expr_equal(x.ret_type, y.ret_type)
    /\ (x.tag = "EXPR_LAMBDA") => expr_equal(x.body, y.body)

\* C22: on two FuncTypes, two Lambdas, two Structs or two Unions expr_equal
\* returns true exactly when they are pairwise equal, so two lambdas that
\* differ in the type of a later parameter are not equal
C22_ListsEqualPairwise ==
    (\E t \in {"EXPR_FUNC_TYPE", "EXPR_LAMBDA", "EXPR_STRUCT", "EXPR_UNION"} :
        Compared(t))
    => equal_call.ret = PairwiseEqual(ComparedX, ComparedY)

(***************************************************************************)
(* Alpha-renaming of parameters.  saved is the binder before the call and  *)
(* expr the binder after it.                                               *)
(***************************************************************************)
\* the call gave parameter i of the binder a fresh name
RenamedParam(i) == expr.param_names[i] \notin Syms \cup {NULL}

\* parameter type j of the binder before the call is an occurrence of
\* parameter i, which binds it
BoundByParam(i, j) ==
    /\ i < j
    /\ saved.param_types[j] = Ident(saved.param_names[i])
    /\ \A k \in (i + 1)..(j - 1) : saved.param_names[k] # saved.param_names[i]

\* C23: when a parameter of a FuncType or Lambda is renamed to a fresh
\* symbol, its bound occurrences in the later parameter types are rewritten
\* to the fresh symbol, and the fresh symbol occurs nowhere outside the scope
\* of the parameter: it is not free in the result
C23_RenameRewritesScope ==
    (Substituted /\ ret_val /\ IsBinder(saved)) =>
        \A i \in 1..Len(saved.param_names) :
            RenamedParam(i) =>
                /\ expr.param_names[i] \notin FreeAfter
                /\ \A j \in 1..Len(saved.param_types) :
                      BoundByParam(i, j) =>
                          expr.param_types[j] = Ident(expr.param_names[i])

(***************************************************************************)
(* Declaration scope in block substitution.  saved is the block expression *)
(* before the call and expr the block expression after it.                 *)
(***************************************************************************)
IsBlockExpr(e) == e.tag = "EXPR_STATEMENT" /\ e.statement.tag = "STATEMENT_BLOCK"

\* statement i of the block is a Decl of d, the first one of the block
FirstDecl(block, i, d) ==
    /\ block[i].tag = "STATEMENT_DECL"
    /\ block[i].name = d
    /\ \A k \in 1..(i - 1) : ~(block[k].tag = "STATEMENT_DECL" /\ block[k].name = d)

\* C24: block_subst does not substitute into the statements after a Decl
\* named name (checked on the later statements in which no other identifier
\* occurs), and it renames a Decl whose name is free in the replacement
\* (checked on the Decls that have a statement with identifiers after them)
C24_BlockSubstRespectsScope ==
    (Substituted /\ ret_val /\ IsBlockExpr(saved)) =>
        LET before == saved.statement.block
            after == expr.statement.block
        IN \A i \in 1..Len(before) :
              /\ FirstDecl(before, i, name) =>
                    \A j \in (i + 1)..Len(before) :
                        (statement_free_vars(before[j]) \subseteq {name})
                            => after[j] = before[j]
              /\ (/\ before[i].tag = "STATEMENT_DECL"
                  /\ before[i].name \in F
                  /\ \A k \in 1..i : ~FirstDecl(before, k, name)
                  /\ \E j \in (i + 1)..Len(before) :
                        statement_free_vars(before[j]) # {})
                    => after[i].name \notin F

(***************************************************************************)
(* The free-variable rules case by case, on the result of ExprFreeVars.    *)
(***************************************************************************)
Analysed == pc = "analysed"

\* C25: the free variables of an if/else statement are those of all its
\* conditions, all its then-blocks and its else-block
C25_IfThenElseFreeVars ==
    (/\ Analysed
     /\ expr.tag = "EXPR_STATEMENT"
     /\ expr.statement.tag = "STATEMENT_IFTHENELSE") =>
        LET statement == expr.statement
        IN free_vars =
              UNION {expr_free_vars(statement.ifs[i]) : i \in 1..Len(statement.ifs)}
              \cup UNION {block_free_vars(statement.thens[i]) :
                            i \in 1..Len(statement.thens)}
              \cup block_free_vars(statement.else_)

\* C26: a symbol is free in a block exactly when it is free in one of its
\* statements and no Decl before that statement in the same block declares
\* it: a Decl binds the later statements of its block, not its own type and
\* initial value, no earlier statement, and nothing outside its block
C26_BlockFreeVarsFold ==
    (Analysed /\ IsBlockExpr(expr)) =>
        LET block == expr.statement.block
        IN free_vars =
              {s \in UNION {statement_free_vars(block[i]) : i \in 1..Len(block)} :
                  \E i \in 1..Len(block) :
                      /\ s \in statement_free_vars(block[i])
                      /\ \A k \in 1..(i - 1) :
                            ~(block[k].tag = "STATEMENT_DECL" /\ block[k].name = s)}

\* an analysed block { u8 d = d; d; }: the Decl binds the statement after it
\* and d is free through the initial value
C26_Witness ==
    /\ Analysed
    /\ IsBlockExpr(expr)
    /\ Len(expr.statement.block) = 2
    /\ expr.statement.block[1].tag = "STATEMENT_DECL"
    /\ expr.statement.block[1].is_initialized
    /\ expr.statement.block[1].name \in statement_free_vars(expr.statement.block[2])
    /\ expr.statement.block[1].name \in expr_free_vars(expr.statement.block[1].initial_value)
    /\ expr.statement.block[1].name \in free_vars

\* the parameter names present among ns[1..k]
PresentAmong(ns, k) == {ns[j] : j \in 1..k} \ {NULL}

\* C27: the free variables of a FuncType are those of the return type minus
\* all present parameter names, and those of each parameter type minus the
\* present names of the parameters before it
C27_FuncTypeFreeVars ==
    (Analysed /\ expr.tag = "EXPR_FUNC_TYPE") =>
        free_vars =
            (expr_free_vars(expr.ret_type)
                \ PresentAmong(expr.param_names, Len(expr.param_names)))
            \cup UNION {expr_free_vars(expr.param_types[i])
                            \ PresentAmong(expr.param_names, i - 1)
                        : i \in 1..Len(expr.param_types)}

\* an analysed FuncType whose first parameter is free in its own type and
\* binds the second parameter type and the return type
C27_Witness ==
    /\ Analysed
    /\ expr.tag = "EXPR_FUNC_TYPE"
    /\ Len(expr.param_names) = 2
    /\ expr.param_names[1] # NULL
    /\ expr.param_types[1] = Ident(expr.param_names[1])
    /\ expr.param_types[2] = Ident(expr.param_names[1])
    /\ expr.ret_type = Ident(expr.param_names[1])
    /\ free_vars = {expr.param_names[1]}

(***************************************************************************)
(* Token locations.  Lines and columns count from 1, the column a newline  *)
(* resets the stream to.                                                   *)
(***************************************************************************)
\* the stream at the first character of the token the call will return:
\* after the characters skipped with a diagnostic and the white space
RECURSIVE TokenStart(_)
TokenStart(s) ==
    LET r == yylex_pass(s)
    IN IF r.token = start_of_function THEN TokenStart(r.stream)
       ELSE skip_whitespace(s)

\* for yylex called until it returns 0: the index in the text of the first
\* character of each token returned
RECURSIVE FirstCharacters(_, _)
FirstCharacters(text, s) ==
    LET r == yylex(s)
        first == (Len(text) - Len(TokenStart(s).source)) + 1
    IN IF r.token = YYEOF THEN <<first>>
       ELSE <<first>> \o FirstCharacters(text, r.stream)

\* the line and the column of the character at index k of the text
LineOf(text, k) == 1 + Cardinality({j \in 1..(k - 1) : text[j] = "\n"})
ColumnOf(text, k) ==
    LET newlines == {j \in 1..(k - 1) : text[j] = "\n"}
    IN IF newlines = {} THEN k
       ELSE k - (CHOOSE j \in newlines : \A m \in newlines : m <= j)

\* C28: the location recorded for each token of the input is the line and
\* column of the token's first character
C28_TokenLocation ==
    (pc = "end_of_input") =>
        LET firsts == FirstCharacters(input, [source |-> input, line |-> 1, column |-> 1])
        IN \A i \in 1..Len(tokens) :
              (tokens[i].token # YYEOF) =>
                  tokens[i].lloc = [first_line |-> LineOf(input, firsts[i]),
                                    first_column |-> ColumnOf(input, firsts[i])]

(***************************************************************************)
(* Termination of substitution.  context.calls is the number of            *)
(* expr_subst, statement_subst and block_subst calls the last ExprSubst    *)
(* entered, context.gensyms the number of parameters it renamed.           *)
(***************************************************************************)
\* the number of expressions, statements and blocks of a term
RECURSIVE Size(_)
RECURSIVE StatementSize(_)
RECURSIVE BlockSize(_)
Size(e) ==
    1 + (CASE e.tag \in {"EXPR_LITERAL", "EXPR_IDENT"} -> 0
           [] e.tag = "EXPR_BIN_OP" -> Size(e.expr1) + Size(e.expr2)
           [] e.tag = "EXPR_IFTHENELSE" ->
                 Size(e.predicate) + Size(e.then_) + Size(e.else_)
           [] e.tag = "EXPR_FUNC_TYPE" ->
                 Size(e.ret_type)
                    + Sum([i \in 1..Len(e.param_types) |-> Size(e.param_types[i])])
           [] e.tag = "EXPR_LAMBDA" ->
                 Size(e.body)
                    + Sum([i \in 1..Len(e.param_types) |-> Size(e.param_types[i])])
           [] e.tag = "EXPR_CALL" ->
                 Size(e.func) + Sum([i \in 1..Len(e.args) |-> Size(e.args[i])])
           [] e.tag \in {"EXPR_STRUCT", "EXPR_UNION"} ->
                 Sum([i \in 1..Len(e.field_types) |-> Size(e.field_types[i])])
           [] e.tag = "EXPR_PACK" ->
                 Size(e.type) + Sum([i \in 1..Len(e.assigns) |-> Size(e.assigns[i])])
           [] e.tag = "EXPR_MEMBER" -> Size(e.record)
           [] e.tag \in PointerTags -> Size(e.pointer)
           [] e.tag = "EXPR_STATEMENT" -> StatementSize(e.statement))

StatementSize(st) ==
    1 + (CASE st.tag = "STATEMENT_EMPTY" -> 0
           [] st.tag \in {"STATEMENT_EXPR", "STATEMENT_RETURN"} -> Size(st.expr)
           [] st.tag = "STATEMENT_BLOCK" -> BlockSize(st.block)
           [] st.tag = "STATEMENT_DECL" ->
                 Size(st.type) + (IF st.is_initialized THEN Size(st.initial_value) ELSE 0)
           [] st.tag = "STATEMENT_IFTHENELSE" ->
                 Sum([i \in 1..Len(st.ifs) |-> Size(st.ifs[i]) + BlockSize(st.thens[i])])
                    + BlockSize(st.else_))

BlockSize(b) == 1 + Sum([i \in 1..Len(b) |-> StatementSize(b[i])])

\* the calls one renaming can add: the rename loop goes over a parameter
\* type, in which every identifier may have become a copy of the
\* replacement, as often as its bound says, and once over the scope
RenameCalls == ((MaxAliased + MaxLen) * Size(saved) * Size(replacement)) + Size(saved)

\* C29: expr_subst returns after finitely many calls: at most one call for
\* each node of the term when no parameter is renamed (the copies of the
\* replacement it inserts are not gone through), and a bounded number more
\* for each renaming
C29_SubstTerminates ==
    Substituted =>
        /\ context.calls >= 1
        /\ context.calls <= Size(saved) + (context.gensyms * RenameCalls)

\* a call that renamed a parameter and made more calls than the term has
\* nodes
C29_Witness ==
    /\ Substituted
    /\ ret_val
    /\ context.gensyms >= 1
    /\ context.calls > Size(saved)

(***************************************************************************)
(* Progress of the lexer.                                                  *)
(***************************************************************************)
\* the token the call just made has returned
LastToken == tokens'[Len(tokens')].token

\* the characters the call just made has taken from the stream
Consumed == Len(stream.source) - Len(stream'.source)

\* C30: every yylex call returns; a call that returns a token has consumed
\* at least one character, each character skipped with a diagnostic is one
\* character consumed, a call on an exhausted stream returns 0 and leaves
\* the stream exhausted
C30_LexerProgress ==
    [][/\ (LastToken # YYEOF) => Consumed >= 1
       /\ (diagnostics' - diagnostics) <= Consumed
       /\ (stream.source = <<>>) =>
             (LastToken = YYEOF /\ stream'.source = <<>>)]_vars

\* a text with a character that is skipped, lexed to its end, and one more
\* call made that returned 0 again
C30_Witness ==
    /\ pc = "past_end"
    /\ diagnostics >= 1
    /\ Len(tokens) >= 3
    /\ tokens[Len(tokens)].token = YYEOF
    /\ tokens[Len(tokens) - 1].token = YYEOF
    /\ stream.source = <<>>

====
